---- MODULE Spec2Model ----
(***************************************************************************)
(* Verification model of the rv1106_camera media-graph library (rmg):      *)
(*   - MediaFrame.cpp    : YuvFrame / EncodedFrame ownership and release   *)
(*   - SystemManager.cpp : reference-counted MPI system, SystemGuard       *)
(*   - VideoCapture / VideoEncoder / FileSaver / RtspServer lifecycle      *)
(*   - CaptureThread / GetStreamThread : the acquisition loops             *)
(*   - Pipeline.cpp      : module registry, bindings, bulk operations      *)
(*   - software bindings (weak destination), RtspServer teardown,          *)
(*     ~VideoCapture / ~VideoEncoder, the encoder's stream loop and the    *)
(*     FileSaver's recording under a concurrent Stop()                     *)
(* The specifications SpecFrame, SpecSys, SpecMod, SpecLoop, SpecBind,     *)
(* SpecPipe, SpecLife, SpecDestroy, SpecWeak, SpecRtsp, SpecDtor,          *)
(* SpecStream and SpecSaver share the variables; each one drives one part  *)
(* of the library.                                                         *)
(***************************************************************************)
EXTENDS Integers, Sequences, FiniteSets, TLC

(***************************************************************************)
(* Bounds of the model.                                                    *)
(***************************************************************************)
MaxSlots == 2
MaxHandles == 2

MaxThreads == 2
MaxGuards == 2
MaxCalls == 4
MaxStarts == 2
MaxFrames == 3
MaxBinds == 2
MaxStreams == 3
MaxFiles == 2
MaxWrites == 2

Slots == 1..MaxSlots
Handles == 1..MaxHandles
Threads == 1..MaxThreads
Guards == 1..MaxGuards

VARIABLES
    frames,      \* Slots -> Frame object (alive flag + the members of the class)
    issued,      \* handles the driver has handed to a Frame constructor
    acquired,    \* handles whose constructor produced a valid Frame
    moved,       \* handles that took part in at least one move
    movedFrom,   \* live slots whose object was last the source of a move
    releaseLog,  \* sequence of handles passed to a release callback
    lastOp       \* the Frame operation executed by the last step

frameVars == <<frames, issued, acquired, moved, movedFrom, releaseLog, lastOp>>

VARIABLES
    ref_count,        \* SystemManager::ref_count_
    sys_initialized,  \* SystemManager::sys_initialized_
    mutex,            \* SystemManager::mutex_: 0 when free, else the holding thread
    pc,               \* Threads -> position inside Initialize() / Deinitialize()
    prev_count,       \* Threads -> the local prev_count of the running call
    ret,              \* Threads -> return value of the thread's last Initialize()
    caller,           \* Threads -> 0 for a direct call, g for a call made by SystemGuard g
    guards,           \* Guards -> [st, is_valid]: SystemGuard objects
    hwUp,             \* the MPI system is up inside the driver
    driverLog,        \* completed RK_MPI_SYS_Init / RK_MPI_SYS_Exit calls, in order
    calls,            \* [acq, rel, fail]: Initialize() / Deinitialize() calls started, failed Initialize()
    plainHeld,        \* direct callers: successful Initialize() minus Deinitialize()
    misuse,           \* a direct caller released more than it acquired
    guardRefs,        \* Guards -> successful acquires minus releases made by the guard
    phase             \* "acq" until the first Deinitialize(), then "rel"; "mixed" once
                      \* an Initialize() starts after a Deinitialize() or overlaps one

sysVars == <<ref_count, sys_initialized, mutex, pc, prev_count, ret, caller, guards, hwUp,
             driverLog, calls, plainHeld, misuse, guardRefs, phase>>

VARIABLES
    vc,        \* the VideoCapture object: state_ and its private members
    ve,        \* the VideoEncoder object
    fs,        \* the FileSaver object
    rs,        \* the RtspServer object
    hw,        \* what exists inside the driver / RTSP library / file system
    created,   \* how many times each hardware resource has been created or enabled
    spawned,   \* how many acquisition threads each Source/Encoder has spawned
    started,   \* the modules whose Start() has succeeded at least once
    lastCall   \* the module operation executed by the last step and its result

modVars == <<vc, ve, fs, rs, hw, created, spawned, started, lastCall>>

VARIABLES
    ctl,       \* the control thread inside a Start() / Stop() of a Source/Encoder: [m, pc]
    loop,      \* Sources -> [pc, frame, ret]: the acquisition thread of the module and
               \* the result of the driver call of its current iteration
    callback,  \* Sources -> yuv_callback_ / encoded_callback_ is non-empty
    events     \* Sources -> what the acquisition threads did, in order

loopVars == <<ctl, loop, callback, events>>

VARIABLES
    alive,            \* the Pipeline object exists
    modules_,         \* Pipeline::modules_: the registered modules
    bindings_,        \* Pipeline::bindings_: sequence of BindInfo
    output_callback,  \* Modules -> destination captured by MediaModule::output_callback_, or "none"
    pushLog,          \* Modules -> frames passed to the module's PushFrame(), in order
    sysUnbindLog,     \* RK_MPI_SYS_UnBind calls made, in order
    recorded,         \* the endpoint pairs of the Hardware bindings BindHardware has recorded, in order
    sysBound,         \* the channel pairs bound inside the driver (RK_MPI_SYS_Bind / _UnBind)
    lastBind,         \* the arguments of the last BindHardware() and whether the driver call faulted
    visited,          \* the module calls of the bulk operation in progress, or of the last one: {[m, ret]}
    cur,              \* the Pipeline operation in progress: [op, todo]
    lastPipe          \* the Pipeline operation completed by the last step and its result

pipeVars == <<alive, modules_, bindings_, output_callback, pushLog, sysUnbindLog, recorded,
             sysBound, lastBind, visited, cur, lastPipe>>

VARIABLES
    userRef,    \* Modules -> the application still holds a ModulePtr to the module
    destroyed,  \* the modules whose destructor has run
    fire,       \* the thread inside InvokeOutputCallback(): [pc, src, dst, frame, holds]
    fireLog     \* what the forwarding closures did with the frames, in order

weakVars == <<userRef, destroyed, fire, fireLog>>

VARIABLES
    rstop,     \* the control thread inside RtspServer::Stop(): its position
    rpush,     \* the callback thread inside RtspServer::PushFrame() / PushData(): its position
    rtspUsed   \* the handles passed to the RTSP library after they were deleted

rtspVars == <<rstop, rpush, rtspUsed>>

VARIABLES
    dtor,      \* Sources -> the position of the module's destructor ("alive" before it runs)
    dtorLog    \* Sources -> what the destructor has released, in order

dtorVars == <<dtor, dtorLog>>

VARIABLES
    sloop,     \* the thread running VideoEncoder::GetStreamThread: [pc, variant, cb, running]
    scur,      \* its current iteration: [got, rel, alloc, free, frame]
    slog       \* its finished iterations, in order: [variant, got, rel, alloc, free]

streamVars == <<sloop, scur, slog>>

VARIABLES
    saver,       \* the FileSaver: [state, is_recording, file_open, frame_count]
    vpc,         \* [ctl, cb]: where the control thread and the encoder callback thread are
    vfiles,      \* the frames written to each recording file opened, in the order of opening
    limitHit,    \* the frame limit ended a recording and StartRecording() was not called since
    lastCtl      \* the last call of the control thread that returned

saverVars == <<saver, vpc, vfiles, limitHit, lastCtl>>

\* the variables of the parts that only some specifications exercise
extVars == <<weakVars, rtspVars, dtorVars, streamVars, saverVars>>

vars == <<frameVars, sysVars, modVars, loopVars, pipeVars, extVars>>

(***************************************************************************)
(* Frame objects (MediaFrame.hpp / MediaFrame.cpp).                        *)
(* handle models stVFrame.pMbBlk (YuvFrame) or stream_.pstPack             *)
(* (EncodedFrame); Null is nullptr.  cb models release_cb_: NoCb is the    *)
(* empty std::function, otherwise the closure made for that acquisition.   *)
(* packs models stream_.u32PackCount (0 for a YuvFrame); meta models the   *)
(* metadata of frame_info_.stVFrame (u64PTS, u32Width, u32Height), which   *)
(* the driver fills in when it hands out a block (0 for an EncodedFrame).  *)
(***************************************************************************)
Null == 0
NoCb == <<>>
Closure(h) == <<h>>
FrameKinds == {"Yuv", "Enc"}

DefaultFrame(k) ==
    [alive |-> TRUE, kind |-> k, is_valid |-> FALSE, handle |-> Null, cb |-> NoCb, packs |-> 0,
     meta |-> 0]

DeadFrame ==
    [alive |-> FALSE, kind |-> "Yuv", is_valid |-> FALSE, handle |-> Null, cb |-> NoCb, packs |-> 0,
     meta |-> 0]

\* is_valid_ as the two converting constructors compute it
CtorValid(k, h, p) ==
    IF k = "Yuv" THEN h # Null ELSE (p > 0 /\ h # Null)

CtorFrame(k, h, p, c) ==
    [alive |-> TRUE, kind |-> k, is_valid |-> CtorValid(k, h, p), handle |-> h, cb |-> c,
     packs |-> IF k = "Yuv" THEN 0 ELSE p,
     meta |-> IF k = "Yuv" /\ h # Null THEN 1 ELSE 0]

\* the condition under which a destructor / move-assignment calls release_cb_

Releases(f) ==
    IF f.kind = "Yuv"
    THEN f.is_valid /\ f.cb # NoCb /\ f.handle # Null
    ELSE f.is_valid /\ f.cb # NoCb

\* what a move leaves in the source object
MovedFromMutKeepsValid(f) ==
    [f EXCEPT !.cb = NoCb]

MovedFromMutNoClear(f) ==
    f

MovedFrom(f) ==
    [f EXCEPT !.is_valid = FALSE, !.handle = Null, !.cb = NoCb]

\* what a move stores in the destination object
MovedInto(src) ==
    [alive |-> TRUE, kind |-> src.kind, is_valid |-> src.is_valid, handle |-> src.handle,
     cb |-> src.cb, packs |-> src.packs, meta |-> src.meta]

\* the accessors of YuvFrame and EncodedFrame; the driver reports the
\* virtual address 100 + h, the physical address 200 + h and the size 10 * h
\* for the block h, the first packet of the stream h has the timestamp
\* 1000 + h, and the stream 1 holds an IDR slice
Unusable(f) == ~f.is_valid \/ f.handle = Null

GetVirAddr(f) == IF Unusable(f) THEN Null ELSE 100 + f.handle

GetPhyAddr(f) ==
    IF f.kind = "Yuv"
    THEN IF Unusable(f) THEN 0 ELSE 200 + f.handle
    ELSE 0

GetDataSize(f) ==
    IF Unusable(f) THEN 0
    ELSE IF f.kind = "Yuv" THEN 10 * f.handle ELSE f.packs * 10 * f.handle

GetPts(f) ==
    IF f.kind = "Yuv"
    THEN f.meta
    ELSE IF Unusable(f) THEN 0 ELSE 1000 + f.handle

IsKeyFrame(f) ==
    IF f.kind = "Yuv" \/ Unusable(f) THEN FALSE ELSE f.packs > 0 /\ f.handle = 1

GetWidth(f) == f.meta

GetHeight(f) == f.meta

GetPacketCount(f) == f.packs

\* the release log after the object f has run its release check
AfterRelease(log, f) ==
    IF Releases(f) THEN Append(log, f.handle) ELSE log

\* n is the number of release callbacks the step invoked
Op(name, d, s, n) == [op |-> name, dst |-> d, src |-> s, n |-> n]

FrameInit ==
    /\ frames = [s \in Slots |-> DeadFrame]
    /\ issued = {}
    /\ acquired = {}
    /\ moved = {}
    /\ movedFrom = {}
    /\ releaseLog = <<>>
    /\ lastOp = Op("none", 0, 0, 0)

\* YuvFrame() = default / EncodedFrame() = default
FrameDefault(s, k) ==
    /\ ~frames[s].alive
    /\ frames' = [frames EXCEPT ![s] = DefaultFrame(k)]
    /\ lastOp' = Op("Default", s, 0, 0)
    /\ UNCHANGED <<issued, acquired, moved, movedFrom, releaseLog>>

\* YuvFrame(frame_info, release_cb) / EncodedFrame(stream, chn_id, release_cb):
\* the driver hands out h (or nullptr) and the caller wraps it with a closure
FrameConstruct(s, k, h, p) ==
    /\ ~frames[s].alive
    /\ h \in (Handles \ issued) \cup {Null}
    /\ k = "Yuv" => p = 0
    /\ frames' = [frames EXCEPT ![s] = CtorFrame(k, h, p, Closure(h))]
    /\ issued' = IF h = Null THEN issued ELSE issued \cup {h}
    /\ acquired' = IF CtorValid(k, h, p) THEN acquired \cup {h} ELSE acquired
    /\ lastOp' = Op("Construct", s, 0, 0)
    /\ UNCHANGED <<moved, movedFrom, releaseLog>>

\* YuvFrame(YuvFrame &&other) / EncodedFrame(EncodedFrame &&other)
FrameMoveConstruct(d, s) ==
    /\ ~frames[d].alive
    /\ frames[s].alive
    /\ frames' = [frames EXCEPT ![d] = MovedInto(frames[s]), ![s] = MovedFrom(frames[s])]
    /\ moved' = IF frames[s].is_valid THEN moved \cup {frames[s].handle} ELSE moved
    /\ movedFrom' = movedFrom \cup {s}
    /\ lastOp' = Op("MoveConstruct", d, s, 0)
    /\ UNCHANGED <<issued, acquired, releaseLog>>

\* operator=(YuvFrame &&other) / operator=(EncodedFrame &&other)
MoveAssignBodyMutNoRelease(d, s) ==
    /\ frames' = [frames EXCEPT ![d] = MovedInto(frames[s]), ![s] = MovedFrom(frames[s])]
    /\ releaseLog' = releaseLog

MoveAssignBody(d, s) ==
    /\ frames' = [frames EXCEPT ![d] = MovedInto(frames[s]), ![s] = MovedFrom(frames[s])]
    /\ releaseLog' = AfterRelease(releaseLog, frames[d])

FrameMoveAssign(d, s) ==
    /\ frames[d].alive
    /\ frames[s].alive
    /\ frames[d].kind = frames[s].kind
    /\ IF d # s
       THEN /\ MoveAssignBody(d, s)
            /\ moved' = IF frames[s].is_valid THEN moved \cup {frames[s].handle} ELSE moved
            /\ movedFrom' = (movedFrom \ {d}) \cup {s}
       ELSE UNCHANGED <<frames, releaseLog, moved, movedFrom>>
    /\ lastOp' = Op("MoveAssign", d, s, Len(releaseLog') - Len(releaseLog))
    /\ UNCHANGED <<issued, acquired>>

\* ~YuvFrame() / ~EncodedFrame()
FrameDestroy(s) ==
    /\ frames[s].alive
    /\ releaseLog' = AfterRelease(releaseLog, frames[s])
    /\ frames' = [frames EXCEPT ![s] = DeadFrame]
    /\ movedFrom' = movedFrom \ {s}
    /\ lastOp' = Op("Destroy", s, 0, Len(releaseLog') - Len(releaseLog))
    /\ UNCHANGED <<issued, acquired, moved>>

FrameNext ==
    \/ \E s \in Slots, k \in FrameKinds : FrameDefault(s, k)
    \/ \E s \in Slots, k \in FrameKinds, h \in Handles \cup {Null}, p \in 0..1 : FrameConstruct(s, k, h, p)
    \/ \E d, s \in Slots : FrameMoveConstruct(d, s)
    \/ \E d, s \in Slots : FrameMoveAssign(d, s)
    \/ \E s \in Slots : FrameDestroy(s)

(***************************************************************************)
(* SystemManager and SystemGuard (SystemManager.hpp / SystemManager.cpp).  *)
(* Every thread runs Initialize() and Deinitialize() one statement at a    *)
(* time; the lock_guard is taken at entry and dropped at return.           *)
(***************************************************************************)
SysInit ==
    /\ ref_count = 0
    /\ sys_initialized = FALSE
    /\ mutex = 0
    /\ pc = [t \in Threads |-> "idle"]
    /\ prev_count = [t \in Threads |-> 0]
    /\ ret = [t \in Threads |-> FALSE]
    /\ caller = [t \in Threads |-> 0]
    /\ guards = [g \in Guards |-> [st |-> "none", is_valid |-> FALSE]]
    /\ hwUp = FALSE
    /\ driverLog = <<>>
    /\ calls = [acq |-> 0, rel |-> 0, fail |-> 0]
    /\ plainHeld = 0
    /\ misuse = FALSE
    /\ guardRefs = [g \in Guards |-> 0]
    /\ phase = "acq"

\* SystemManager::IsInitialized() / GetRefCount(): atomic loads, taken without the mutex
IsInitialized == ref_count > 0

GetRefCount == ref_count

InProgressInit == {t \in Threads : pc[t] \in {"I_lock", "I_fetch_add", "I_call_init", "I_in_init",
                                               "I_rollback", "I_set_flag", "I_unlock"}}
AllIdle == \A t \in Threads : pc[t] = "idle"

\* a thread enters Initialize(); g = 0 for a direct call
BeginInitialize(t, g) ==
    /\ pc[t] = "idle"
    /\ calls.acq + calls.rel < MaxCalls
    /\ pc' = [pc EXCEPT ![t] = "I_lock"]
    /\ caller' = [caller EXCEPT ![t] = g]
    /\ calls' = [calls EXCEPT !.acq = @ + 1]
    /\ phase' = IF phase = "acq" THEN "acq" ELSE "mixed"

\* a thread enters Deinitialize(); g = 0 for a direct call
BeginDeinitialize(t, g) ==
    /\ pc[t] = "idle"
    /\ calls.acq + calls.rel < MaxCalls
    /\ pc' = [pc EXCEPT ![t] = "D_lock"]
    /\ caller' = [caller EXCEPT ![t] = g]
    /\ calls' = [calls EXCEPT !.rel = @ + 1]
    /\ phase' = IF phase = "mixed" \/ InProgressInit # {} THEN "mixed" ELSE "rel"

\* SystemManager::Initialize() called directly
InitializeCall(t) ==
    /\ BeginInitialize(t, 0)
    /\ UNCHANGED <<ref_count, sys_initialized, mutex, prev_count, ret, guards, hwUp, driverLog,
                   plainHeld, misuse, guardRefs>>

\* std::lock_guard<std::mutex> lock(mutex_)
I_Lock(t) ==
    /\ pc[t] = "I_lock"
    /\ mutex = 0
    /\ mutex' = t
    /\ pc' = [pc EXCEPT ![t] = "I_fetch_add"]
    /\ UNCHANGED <<ref_count, sys_initialized, prev_count, ret, caller, guards, hwUp, driverLog,
                   calls, plainHeld, misuse, guardRefs, phase>>

\* after fetch_add: "already initialized" return, or go on to the first init
AfterFetchAddMutAlwaysInit(prev) ==
    "I_call_init"

AfterFetchAdd(prev) ==
    IF prev > 0 THEN "I_unlock" ELSE "I_call_init"

\* int prev_count = ref_count_.fetch_add(1); if (prev_count > 0) return true;
I_FetchAdd(t) ==
    /\ pc[t] = "I_fetch_add"
    /\ prev_count' = [prev_count EXCEPT ![t] = ref_count]
    /\ ref_count' = ref_count + 1
    /\ pc' = [pc EXCEPT ![t] = AfterFetchAdd(ref_count)]
    /\ ret' = [ret EXCEPT ![t] = (ref_count > 0)]   \* TRUE on the early return
    /\ UNCHANGED <<sys_initialized, mutex, caller, guards, hwUp, driverLog, calls, plainHeld,
                   misuse, guardRefs, phase>>

\* RK_MPI_SYS_Init() is entered
I_CallInit(t) ==
    /\ pc[t] = "I_call_init"
    /\ pc' = [pc EXCEPT ![t] = "I_in_init"]
    /\ UNCHANGED <<ref_count, sys_initialized, mutex, prev_count, ret, caller, guards, hwUp,
                   driverLog, calls, plainHeld, misuse, guardRefs, phase>>

\* RK_MPI_SYS_Init() returns RK_SUCCESS (ok) or an error code
I_InitReturns(t, ok) ==
    /\ pc[t] = "I_in_init"
    /\ hwUp' = (hwUp \/ ok)
    /\ driverLog' = Append(driverLog, IF ok THEN "init_ok" ELSE "init_fail")
    /\ pc' = [pc EXCEPT ![t] = IF ok THEN "I_set_flag" ELSE "I_rollback"]
    /\ UNCHANGED <<ref_count, sys_initialized, mutex, prev_count, ret, caller, guards, calls,
                   plainHeld, misuse, guardRefs, phase>>

\* the count the failure path leaves behind
RolledBackMutNoRollback(c) ==
    c

RolledBack(c) ==
    c - 1

\* ref_count_.fetch_sub(1); return false;
I_Rollback(t) ==
    /\ pc[t] = "I_rollback"
    /\ ref_count' = RolledBack(ref_count)
    /\ ret' = [ret EXCEPT ![t] = FALSE]
    /\ pc' = [pc EXCEPT ![t] = "I_unlock"]
    /\ UNCHANGED <<sys_initialized, mutex, prev_count, caller, guards, hwUp, driverLog, calls,
                   plainHeld, misuse, guardRefs, phase>>

\* sys_initialized_ = true; return true;
I_SetFlag(t) ==
    /\ pc[t] = "I_set_flag"
    /\ sys_initialized' = TRUE
    /\ ret' = [ret EXCEPT ![t] = TRUE]
    /\ pc' = [pc EXCEPT ![t] = "I_unlock"]
    /\ UNCHANGED <<ref_count, mutex, prev_count, caller, guards, hwUp, driverLog, calls,
                   plainHeld, misuse, guardRefs, phase>>

\* Initialize() returns: the lock_guard unlocks; a SystemGuard constructor
\* stores the result in is_valid_
I_Unlock(t) ==
    /\ pc[t] = "I_unlock"
    /\ mutex' = 0
    /\ pc' = [pc EXCEPT ![t] = "idle"]
    /\ IF caller[t] = 0
       THEN /\ plainHeld' = IF ret[t] THEN plainHeld + 1 ELSE plainHeld
            /\ UNCHANGED <<guards, guardRefs>>
       ELSE /\ guards' = [guards EXCEPT ![caller[t]] = [st |-> "alive", is_valid |-> ret[t]]]
            /\ guardRefs' = [guardRefs EXCEPT ![caller[t]] = IF ret[t] THEN @ + 1 ELSE @]
            /\ UNCHANGED plainHeld
    /\ calls' = IF ret[t] THEN calls ELSE [calls EXCEPT !.fail = @ + 1]
    /\ UNCHANGED <<ref_count, sys_initialized, prev_count, ret, caller, hwUp, driverLog,
                   misuse, phase>>

\* SystemManager::Deinitialize() called directly
DeinitializeCall(t) ==
    /\ BeginDeinitialize(t, 0)
    /\ plainHeld' = plainHeld - 1
    /\ misuse' = (misuse \/ plainHeld <= 0)
    /\ UNCHANGED <<ref_count, sys_initialized, mutex, prev_count, ret, guards, hwUp, driverLog,
                   guardRefs>>

\* std::lock_guard<std::mutex> lock(mutex_)
D_Lock(t) ==
    /\ pc[t] = "D_lock"
    /\ mutex = 0
    /\ mutex' = t
    /\ pc' = [pc EXCEPT ![t] = "D_fetch_sub"]
    /\ UNCHANGED <<ref_count, sys_initialized, prev_count, ret, caller, guards, hwUp, driverLog,
                   calls, plainHeld, misuse, guardRefs, phase>>

\* the branch Deinitialize() takes after fetch_sub
AfterFetchSubMutExitEarly(prev, si) ==
    IF prev <= 0 THEN "D_clamp"
    ELSE IF si THEN "D_call_exit"
    ELSE "D_unlock"

AfterFetchSub(prev, si) ==
    IF prev <= 0 THEN "D_clamp"
    ELSE IF prev = 1 /\ si THEN "D_call_exit"
    ELSE "D_unlock"

\* int prev_count = ref_count_.fetch_sub(1);
D_FetchSub(t) ==
    /\ pc[t] = "D_fetch_sub"
    /\ prev_count' = [prev_count EXCEPT ![t] = ref_count]
    /\ ref_count' = ref_count - 1
    /\ pc' = [pc EXCEPT ![t] = AfterFetchSub(ref_count, sys_initialized)]
    /\ UNCHANGED <<sys_initialized, mutex, ret, caller, guards, hwUp, driverLog, calls,
                   plainHeld, misuse, guardRefs, phase>>

\* the count the usage-error path stores
ClampedMutNoClamp(c) ==
    c

Clamped(c) ==
    0

\* ref_count_.store(0); return;
D_Clamp(t) ==
    /\ pc[t] = "D_clamp"
    /\ ref_count' = Clamped(ref_count)
    /\ pc' = [pc EXCEPT ![t] = "D_unlock"]
    /\ UNCHANGED <<sys_initialized, mutex, prev_count, ret, caller, guards, hwUp, driverLog,
                   calls, plainHeld, misuse, guardRefs, phase>>

\* RK_MPI_SYS_Exit() is entered
D_CallExit(t) ==
    /\ pc[t] = "D_call_exit"
    /\ pc' = [pc EXCEPT ![t] = "D_in_exit"]
    /\ UNCHANGED <<ref_count, sys_initialized, mutex, prev_count, ret, caller, guards, hwUp,
                   driverLog, calls, plainHeld, misuse, guardRefs, phase>>

\* RK_MPI_SYS_Exit() returns
D_ExitReturns(t) ==
    /\ pc[t] = "D_in_exit"
    /\ hwUp' = FALSE
    /\ driverLog' = Append(driverLog, "exit")
    /\ pc' = [pc EXCEPT ![t] = "D_clear_flag"]
    /\ UNCHANGED <<ref_count, sys_initialized, mutex, prev_count, ret, caller, guards, calls,
                   plainHeld, misuse, guardRefs, phase>>

\* sys_initialized_ = false;
D_ClearFlag(t) ==
    /\ pc[t] = "D_clear_flag"
    /\ sys_initialized' = FALSE
    /\ pc' = [pc EXCEPT ![t] = "D_unlock"]
    /\ UNCHANGED <<ref_count, mutex, prev_count, ret, caller, guards, hwUp, driverLog, calls,
                   plainHeld, misuse, guardRefs, phase>>

\* Deinitialize() returns: the lock_guard unlocks; a SystemGuard destructor ends
D_Unlock(t) ==
    /\ pc[t] = "D_unlock"
    /\ mutex' = 0
    /\ pc' = [pc EXCEPT ![t] = "idle"]
    /\ guards' = IF caller[t] = 0 THEN guards
                 ELSE [guards EXCEPT ![caller[t]] = [st |-> "none", is_valid |-> FALSE]]
    /\ UNCHANGED <<ref_count, sys_initialized, prev_count, ret, caller, hwUp, driverLog, calls,
                   plainHeld, misuse, guardRefs, phase>>

\* SystemGuard::SystemGuard(): is_valid_ = SystemManager::GetInstance().Initialize()
GuardConstruct(t, g) ==
    /\ guards[g].st = "none"
    /\ BeginInitialize(t, g)
    /\ guards' = [guards EXCEPT ![g] = [st |-> "constructing", is_valid |-> FALSE]]
    /\ UNCHANGED <<ref_count, sys_initialized, mutex, prev_count, ret, hwUp, driverLog,
                   plainHeld, misuse, guardRefs>>

\* whether ~SystemGuard() calls Deinitialize()
GuardReleasesMutAlways(gd) ==
    TRUE

GuardReleases(gd) ==
    gd.is_valid

\* SystemGuard::~SystemGuard(): if (is_valid_) Deinitialize()
GuardDestroy(t, g) ==
    /\ guards[g].st = "alive"
    /\ IF GuardReleases(guards[g])
       THEN /\ BeginDeinitialize(t, g)
            /\ guards' = [guards EXCEPT ![g].st = "destroying"]
            /\ guardRefs' = [guardRefs EXCEPT ![g] = @ - 1]
       ELSE /\ pc[t] = "idle"
            /\ guards' = [guards EXCEPT ![g] = [st |-> "none", is_valid |-> FALSE]]
            /\ UNCHANGED <<pc, caller, calls, phase, guardRefs>>
    /\ UNCHANGED <<ref_count, sys_initialized, mutex, prev_count, ret, hwUp, driverLog,
                   plainHeld, misuse>>

SysNext ==
    \/ \E t \in Threads : InitializeCall(t)
    \/ \E t \in Threads : I_Lock(t)
    \/ \E t \in Threads : I_FetchAdd(t)
    \/ \E t \in Threads : I_CallInit(t)
    \/ \E t \in Threads, ok \in BOOLEAN : I_InitReturns(t, ok)
    \/ \E t \in Threads : I_Rollback(t)
    \/ \E t \in Threads : I_SetFlag(t)
    \/ \E t \in Threads : I_Unlock(t)
    \/ \E t \in Threads : DeinitializeCall(t)
    \/ \E t \in Threads : D_Lock(t)
    \/ \E t \in Threads : D_FetchSub(t)
    \/ \E t \in Threads : D_Clamp(t)
    \/ \E t \in Threads : D_CallExit(t)
    \/ \E t \in Threads : D_ExitReturns(t)
    \/ \E t \in Threads : D_ClearFlag(t)
    \/ \E t \in Threads : D_Unlock(t)
    \/ \E t \in Threads, g \in Guards : GuardConstruct(t, g)
    \/ \E t \in Threads, g \in Guards : GuardDestroy(t, g)

(***************************************************************************)
(* SystemManager::Initialize() called from the control thread and run to   *)
(* completion: the statements of the function in program order.            *)
(***************************************************************************)
SysInitializeRet(ok) ==
    AfterFetchAdd(ref_count) = "I_unlock" \/ ok

SysInitializeDone(ok) ==
    LET path == AfterFetchAdd(ref_count)
    IN  /\ ref_count' = IF path = "I_unlock" \/ ok THEN ref_count + 1 ELSE RolledBack(ref_count + 1)
        /\ sys_initialized' = IF path = "I_call_init" /\ ok THEN TRUE ELSE sys_initialized
        /\ hwUp' = IF path = "I_call_init" /\ ok THEN TRUE ELSE hwUp
        /\ driverLog' = IF path = "I_call_init"
                        THEN Append(driverLog, IF ok THEN "init_ok" ELSE "init_fail")
                        ELSE driverLog

\* SystemManager::Deinitialize() called from the control thread and run to completion
SysDeinitializeDone ==
    LET path == AfterFetchSub(ref_count, sys_initialized)
    IN  /\ ref_count' = IF path = "D_clamp" THEN Clamped(ref_count - 1) ELSE ref_count - 1
        /\ sys_initialized' = IF path = "D_call_exit" THEN FALSE ELSE sys_initialized
        /\ hwUp' = IF path = "D_call_exit" THEN FALSE ELSE hwUp
        /\ driverLog' = IF path = "D_call_exit" THEN Append(driverLog, "exit") ELSE driverLog

sysCallVars == <<mutex, pc, prev_count, ret, caller, guards, calls, plainHeld, misuse, guardRefs, phase>>

(***************************************************************************)
(* Modules (MediaModule.hpp and the four concrete module classes).  The    *)
(* control thread calls Initialize() / Start() / Stop(); each action is    *)
(* one complete call.                                                      *)
(***************************************************************************)

\* from is the module's state when the call was made
Call(op, m, r, from) == [op |-> op, m |-> m, ret |-> r, from |-> from]

ModInit ==
    /\ vc = [state |-> "kUninitialized", sys_guard |-> "null", isp_initialized |-> FALSE,
             vi_initialized |-> FALSE, running |-> FALSE, thread |-> FALSE]
    /\ ve = [state |-> "kUninitialized", channel_created |-> FALSE, running |-> FALSE, thread |-> FALSE]
    /\ fs = [state |-> "kUninitialized", is_recording |-> FALSE, file_open |-> FALSE, frame_count |-> 0]
    /\ rs = [state |-> "kUninitialized", demo |-> FALSE, session |-> FALSE]
    /\ hw = [isp |-> FALSE, vi_dev |-> FALSE, vi_chn |-> FALSE, venc_chn |-> FALSE,
             rtsp_demo |-> FALSE, rtsp_session |-> FALSE, out_dir |-> FALSE]
    /\ created = [isp |-> 0, vi |-> 0, venc |-> 0, rtsp |-> 0, dir |-> 0]
    /\ spawned = [vc |-> 0, ve |-> 0]
    /\ started = {}
    /\ lastCall = Call("none", "none", FALSE, "none")

\* the early return of every Initialize(): if (GetState() != kUninitialized) return true
SkipsInitializeMutOnlyRunning(state) ==
    state \in {"kRunning", "kStopped", "kError"}

SkipsInitialize(state) ==
    state # "kUninitialized"

\* the state test of VideoCapture / VideoEncoder / FileSaver ::Start()
CanStartMutNotRunningCheck(state) ==
    state # "kUninitialized" /\ state # "kError"

CanStart(state) ==
    state = "kInitialized" \/ state = "kStopped"

\* the state test of RtspServer::Start()
RtspCanStart(state) ==
    state = "kInitialized"

\* the first driver call that fails inside VideoCapture::Initialize(), or "ok"
IspFailures == {"isp_init_fail", "isp_run_fail"}
ViFailures == {"set_dev_attr_fail", "enable_dev_fail", "bind_pipe_fail", "set_chn_attr_fail",
               "enable_chn_fail"}
CaptureOutcomes == {"sys_fail"} \cup IspFailures \cup ViFailures \cup {"ok"}
RtspOutcomes == {"demo_fail", "session_fail", "set_video_fail", "ok"}

\* VideoCapture::Initialize() with InitIsp() and InitVi(); res names the first
\* driver call that fails (the MPI system init can fail only when it is run)
VC_Initialize(res) ==
    IF SkipsInitialize(vc.state)
    THEN /\ lastCall' = Call("Initialize", "vc", TRUE, vc.state)
         /\ UNCHANGED <<vc, hw, created, ref_count, sys_initialized, hwUp, driverLog>>
    ELSE /\ SysInitializeDone(res # "sys_fail")
         /\ IF ~SysInitializeRet(res # "sys_fail")
            THEN /\ vc' = [vc EXCEPT !.sys_guard = "invalid", !.state = "kError"]
                 /\ lastCall' = Call("Initialize", "vc", FALSE, vc.state)
                 /\ UNCHANGED <<hw, created>>
            ELSE IF res \in IspFailures
            THEN /\ vc' = [vc EXCEPT !.sys_guard = "valid", !.state = "kError"]
                 /\ lastCall' = Call("Initialize", "vc", FALSE, vc.state)
                 /\ created' = IF res = "isp_run_fail" THEN [created EXCEPT !.isp = @ + 1] ELSE created
                 /\ UNCHANGED hw
            ELSE IF res \in ViFailures
            THEN /\ vc' = [vc EXCEPT !.sys_guard = "valid", !.isp_initialized = TRUE, !.state = "kError"]
                 /\ lastCall' = Call("Initialize", "vc", FALSE, vc.state)
                 /\ hw' = [hw EXCEPT !.isp = TRUE]
                 /\ created' = [created EXCEPT !.isp = @ + 1,
                                               !.vi = IF res \in {"set_dev_attr_fail", "enable_dev_fail"}
                                                      THEN @ ELSE @ + 1]
            ELSE /\ vc' = [vc EXCEPT !.sys_guard = "valid", !.isp_initialized = TRUE,
                                     !.vi_initialized = TRUE, !.state = "kInitialized"]
                 /\ lastCall' = Call("Initialize", "vc", TRUE, vc.state)
                 /\ hw' = [hw EXCEPT !.isp = TRUE, !.vi_dev = TRUE, !.vi_chn = TRUE]
                 /\ created' = [created EXCEPT !.isp = @ + 1, !.vi = @ + 1]

VC_InitializeCall(res) ==
    /\ VC_Initialize(res)
    /\ UNCHANGED <<ve, fs, rs, spawned, started>>
    /\ UNCHANGED sysCallVars

\* VideoCapture::Start()
VC_Start ==
    /\ spawned.vc < MaxStarts
    /\ IF ~CanStart(vc.state)
       THEN /\ lastCall' = Call("Start", "vc", FALSE, vc.state)
            /\ UNCHANGED <<vc, spawned, started>>
       ELSE /\ vc' = [vc EXCEPT !.running = TRUE, !.thread = TRUE, !.state = "kRunning"]
            /\ spawned' = [spawned EXCEPT !.vc = @ + 1]
            /\ started' = started \cup {"vc"}
            /\ lastCall' = Call("Start", "vc", TRUE, vc.state)
    /\ UNCHANGED <<ve, fs, rs, hw, created>>
    /\ UNCHANGED sysVars

\* VideoCapture::Stop(): clears running_, joins the capture thread
VC_Stop ==
    /\ IF ~vc.running
       THEN UNCHANGED vc
       ELSE vc' = [vc EXCEPT !.running = FALSE, !.thread = FALSE, !.state = "kStopped"]
    /\ lastCall' = Call("Stop", "vc", TRUE, vc.state)
    /\ UNCHANGED <<ve, fs, rs, hw, created, spawned, started>>
    /\ UNCHANGED sysVars

\* VideoEncoder::Initialize() with CreateChannel()
VE_Initialize(ok) ==
    /\ IF SkipsInitialize(ve.state)
       THEN /\ lastCall' = Call("Initialize", "ve", TRUE, ve.state)
            /\ UNCHANGED <<ve, hw, created>>
       ELSE IF ~ok
       THEN /\ ve' = [ve EXCEPT !.state = "kError"]
            /\ lastCall' = Call("Initialize", "ve", FALSE, ve.state)
            /\ UNCHANGED <<hw, created>>
       ELSE /\ ve' = [ve EXCEPT !.channel_created = TRUE, !.state = "kInitialized"]
            /\ hw' = [hw EXCEPT !.venc_chn = TRUE]
            /\ created' = [created EXCEPT !.venc = @ + 1]
            /\ lastCall' = Call("Initialize", "ve", TRUE, ve.state)
    /\ UNCHANGED <<vc, fs, rs, spawned, started>>
    /\ UNCHANGED sysVars

\* VideoEncoder::Start()
VE_Start ==
    /\ spawned.ve < MaxStarts
    /\ IF ~CanStart(ve.state)
       THEN /\ lastCall' = Call("Start", "ve", FALSE, ve.state)
            /\ UNCHANGED <<ve, spawned, started>>
       ELSE /\ ve' = [ve EXCEPT !.running = TRUE, !.thread = TRUE, !.state = "kRunning"]
            /\ spawned' = [spawned EXCEPT !.ve = @ + 1]
            /\ started' = started \cup {"ve"}
            /\ lastCall' = Call("Start", "ve", TRUE, ve.state)
    /\ UNCHANGED <<vc, fs, rs, hw, created>>
    /\ UNCHANGED sysVars

\* VideoEncoder::Stop(): clears running_, joins the stream thread
VE_Stop ==
    /\ IF ~ve.running
       THEN UNCHANGED ve
       ELSE ve' = [ve EXCEPT !.running = FALSE, !.thread = FALSE, !.state = "kStopped"]
    /\ lastCall' = Call("Stop", "ve", TRUE, ve.state)
    /\ UNCHANGED <<vc, fs, rs, hw, created, spawned, started>>
    /\ UNCHANGED sysVars

\* FileSaver::Initialize(): creates the output directory when it is missing
FS_Initialize(dirOk) ==
    /\ IF SkipsInitialize(fs.state)
       THEN /\ lastCall' = Call("Initialize", "fs", TRUE, fs.state)
            /\ UNCHANGED <<fs, hw, created>>
       ELSE IF ~dirOk
       THEN /\ fs' = [fs EXCEPT !.state = "kError"]
            /\ lastCall' = Call("Initialize", "fs", FALSE, fs.state)
            /\ UNCHANGED <<hw, created>>
       ELSE /\ fs' = [fs EXCEPT !.state = "kInitialized"]
            /\ hw' = [hw EXCEPT !.out_dir = TRUE]
            /\ created' = [created EXCEPT !.dir = @ + 1]
            /\ lastCall' = Call("Initialize", "fs", TRUE, fs.state)
    /\ UNCHANGED <<vc, ve, rs, spawned, started>>
    /\ UNCHANGED sysVars

\* FileSaver::Start()
FS_Start ==
    /\ IF ~CanStart(fs.state)
       THEN /\ lastCall' = Call("Start", "fs", FALSE, fs.state)
            /\ UNCHANGED <<fs, started>>
       ELSE /\ fs' = [fs EXCEPT !.frame_count = 0, !.state = "kRunning"]
            /\ started' = started \cup {"fs"}
            /\ lastCall' = Call("Start", "fs", TRUE, fs.state)
    /\ UNCHANGED <<vc, ve, rs, hw, created, spawned>>
    /\ UNCHANGED sysVars

\* FileSaver::StartRecording()
FS_StartRecording(openOk) ==
    /\ IF fs.is_recording
       THEN /\ lastCall' = Call("StartRecording", "fs", TRUE, fs.state)
            /\ UNCHANGED fs
       ELSE IF ~openOk
       THEN /\ lastCall' = Call("StartRecording", "fs", FALSE, fs.state)
            /\ UNCHANGED fs
       ELSE /\ fs' = [fs EXCEPT !.is_recording = TRUE, !.file_open = TRUE, !.frame_count = 0]
            /\ lastCall' = Call("StartRecording", "fs", TRUE, fs.state)
    /\ UNCHANGED <<vc, ve, rs, hw, created, spawned, started>>
    /\ UNCHANGED sysVars

\* FileSaver::StopRecording()
StopRecordingDone(f) ==
    IF ~f.is_recording THEN f
    ELSE [f EXCEPT !.is_recording = FALSE, !.file_open = FALSE]

\* FileSaver::Stop()
FS_Stop ==
    /\ IF fs.state = "kUninitialized"
       THEN UNCHANGED fs
       ELSE fs' = [StopRecordingDone(fs) EXCEPT !.state = "kStopped"]
    /\ lastCall' = Call("Stop", "fs", TRUE, fs.state)
    /\ UNCHANGED <<vc, ve, rs, hw, created, spawned, started>>
    /\ UNCHANGED sysVars

\* RtspServer::Initialize()
RS_Initialize(res) ==
    /\ IF SkipsInitialize(rs.state)
       THEN /\ lastCall' = Call("Initialize", "rs", TRUE, rs.state)
            /\ UNCHANGED <<rs, hw, created>>
       ELSE IF res # "ok"
       THEN /\ rs' = [rs EXCEPT !.state = "kError"]
            /\ lastCall' = Call("Initialize", "rs", FALSE, rs.state)
            /\ created' = IF res = "demo_fail" THEN created ELSE [created EXCEPT !.rtsp = @ + 1]
            /\ UNCHANGED hw
       ELSE /\ rs' = [rs EXCEPT !.demo = TRUE, !.session = TRUE, !.state = "kInitialized"]
            /\ hw' = [hw EXCEPT !.rtsp_demo = TRUE, !.rtsp_session = TRUE]
            /\ created' = [created EXCEPT !.rtsp = @ + 1]
            /\ lastCall' = Call("Initialize", "rs", TRUE, rs.state)
    /\ UNCHANGED <<vc, ve, fs, spawned, started>>
    /\ UNCHANGED sysVars

\* RtspServer::Start()
RS_Start ==
    /\ IF ~RtspCanStart(rs.state)
       THEN /\ lastCall' = Call("Start", "rs", FALSE, rs.state)
            /\ UNCHANGED <<rs, started>>
       ELSE /\ rs' = [rs EXCEPT !.state = "kRunning"]
            /\ started' = started \cup {"rs"}
            /\ lastCall' = Call("Start", "rs", TRUE, rs.state)
    /\ UNCHANGED <<vc, ve, fs, hw, created, spawned>>
    /\ UNCHANGED sysVars

\* RtspServer::Stop(): deletes the session and the server, then kStopped
RS_Stop ==
    /\ IF rs.state = "kUninitialized"
       THEN UNCHANGED <<rs, hw>>
       ELSE /\ rs' = [rs EXCEPT !.session = FALSE, !.demo = FALSE, !.state = "kStopped"]
            /\ hw' = [hw EXCEPT !.rtsp_session = FALSE, !.rtsp_demo = FALSE]
    /\ lastCall' = Call("Stop", "rs", TRUE, rs.state)
    /\ UNCHANGED <<vc, ve, fs, created, spawned, started>>
    /\ UNCHANGED sysVars

ModNext ==
    \/ \E res \in CaptureOutcomes : VC_InitializeCall(res)
    \/ VC_Start
    \/ VC_Stop
    \/ \E ok \in BOOLEAN : VE_Initialize(ok)
    \/ VE_Start
    \/ VE_Stop
    \/ \E dirOk \in BOOLEAN : FS_Initialize(dirOk)
    \/ FS_Start
    \/ \E openOk \in BOOLEAN : FS_StartRecording(openOk)
    \/ FS_Stop
    \/ \E res \in RtspOutcomes : RS_Initialize(res)
    \/ RS_Start
    \/ RS_Stop

(***************************************************************************)
(* Pipeline (Pipeline.hpp / Pipeline.cpp).  The bulk operations walk       *)
(* modules_, an unordered_map, in an order the program does not fix; cur   *)
(* holds the modules still to visit.                                       *)
(***************************************************************************)
Modules == {"vc", "ve", "fs", "rs"}

\* the module classes that run an acquisition thread
Sources == {"vc", "ve"}

StateOf(m) ==
    CASE m = "vc" -> vc.state
      [] m = "ve" -> ve.state
      [] m = "fs" -> fs.state
      [] m = "rs" -> rs.state

\* VideoCapture::GetEndpoint() and VideoEncoder::GetEndpoint() with the default Config
ViEndpoint == [mod_id |-> "RK_ID_VI", dev_id |-> 0, chn_id |-> 0]
VencEndpoint == [mod_id |-> "RK_ID_VENC", dev_id |-> 0, chn_id |-> 0]
Endpoints == {ViEndpoint, VencEndpoint}

\* ModuleEndpoint::ToMppChn()
ToMppChn(e) == [enModId |-> e.mod_id, s32DevId |-> e.dev_id, s32ChnId |-> e.chn_id]

\* BindInfo info{} with the fields BindHardware / BindSoftware assign
ZeroEndpoint == [mod_id |-> "0", dev_id |-> 0, chn_id |-> 0]

HardwareBindInfo(src, dst) ==
    [src_module |-> "null", dst_module |-> "null", src_endpoint |-> src, dst_endpoint |-> dst,
     bind_type |-> "kHardware"]

SoftwareBindInfo(s, d) ==
    [src_module |-> s, dst_module |-> d, src_endpoint |-> ZeroEndpoint, dst_endpoint |-> ZeroEndpoint,
     bind_type |-> "kSoftware"]

IsHardware(b) == b.bind_type = "kHardware"
IsSoftware(b) == b.bind_type = "kSoftware"

\* one call of RK_MPI_SYS_UnBind and whether it returned RK_SUCCESS
SysUnBind(src_chn, dst_chn, ok) == [src |-> src_chn, dst |-> dst_chn, ok |-> ok]

PipeResult(op, r) == [op |-> op, ret |-> r]

PipeIdle == [op |-> "idle", todo |-> {}]

PipeInit ==
    /\ alive = TRUE
    /\ modules_ = {}
    /\ bindings_ = <<>>
    /\ output_callback = [m \in Modules |-> "none"]
    /\ pushLog = [m \in Modules |-> <<>>]
    /\ sysUnbindLog = <<>>
    /\ recorded = <<>>
    /\ sysBound = {}
    /\ lastBind = [src |-> ZeroEndpoint, dst |-> ZeroEndpoint, fault |-> FALSE]
    /\ visited = {}
    /\ cur = PipeIdle
    /\ lastPipe = PipeResult("none", FALSE)

\* the control thread is between two calls and the Pipeline exists
CanCall == alive /\ cur.op = "idle" /\ ctl.pc = "idle"

\* MediaModule::PushFrame(FramePtr): the base implementation, which no module
\* class overrides, takes the frame and returns false
PushFrame(log, k, f) == [log EXCEPT ![k] = Append(@, f)]

\* Pipeline::RegisterModule(name, module); m is "null" for an empty ModulePtr
RegisterModule(m) ==
    /\ CanCall
    /\ IF m = "null"
       THEN /\ lastPipe' = PipeResult("RegisterModule", FALSE)
            /\ UNCHANGED modules_
       ELSE /\ modules_' = modules_ \cup {m}
            /\ lastPipe' = PipeResult("RegisterModule", TRUE)
    /\ UNCHANGED <<alive, bindings_, output_callback, pushLog, sysUnbindLog, recorded, sysBound,
                   lastBind, visited, cur>>
    /\ UNCHANGED <<sysVars, modVars, loopVars>>

\* RK_MPI_SYS_Bind(&src_chn, &dst_chn) returns RK_SUCCESS: the driver gives a
\* destination channel one source and refuses a second bind of it
SysBindRet(bound, src_chn, dst_chn, fault) ==
    ~fault /\ \A p \in bound : p[2] # dst_chn

\* RK_MPI_SYS_UnBind(&src_chn, &dst_chn) returns RK_SUCCESS: the pair is bound
SysUnBindRet(bound, src_chn, dst_chn, fault) ==
    ~fault /\ <<src_chn, dst_chn>> \in bound

\* whether BindHardware records the binding
RecordsBindMutOnFailure(ok) ==
    TRUE

RecordsBind(ok) ==
    ok

\* Pipeline::BindHardware(src_endpoint, dst_endpoint); fault is TRUE when
\* RK_MPI_SYS_Bind fails for a reason of its own
BindHardware(src, dst, fault) ==
    LET ok == SysBindRet(sysBound, ToMppChn(src), ToMppChn(dst), fault)
    IN  /\ CanCall
        /\ Len(recorded) < MaxBinds
        /\ sysBound' = IF ok THEN sysBound \cup {<<ToMppChn(src), ToMppChn(dst)>>} ELSE sysBound
        /\ bindings_' = IF RecordsBind(ok) THEN Append(bindings_, HardwareBindInfo(src, dst)) ELSE bindings_
        /\ recorded' = IF RecordsBind(ok) THEN Append(recorded, <<src, dst>>) ELSE recorded
        /\ lastBind' = [src |-> src, dst |-> dst, fault |-> fault]
        /\ lastPipe' = PipeResult("BindHardware", ok)
        /\ UNCHANGED <<alive, modules_, output_callback, pushLog, sysUnbindLog, visited, cur>>
    /\ UNCHANGED <<sysVars, modVars, loopVars>>

\* Pipeline::BindSoftware(src_module, dst_module); "null" for an empty ModulePtr
BindSoftware(s, d) ==
    /\ CanCall
    /\ Len(SelectSeq(bindings_, IsSoftware)) < MaxBinds
    /\ IF s = "null" \/ d = "null"
       THEN /\ lastPipe' = PipeResult("BindSoftware", FALSE)
            /\ UNCHANGED <<bindings_, output_callback>>
       ELSE /\ output_callback' = [output_callback EXCEPT ![s] = d]
            /\ bindings_' = Append(bindings_, SoftwareBindInfo(s, d))
            /\ lastPipe' = PipeResult("BindSoftware", TRUE)
    /\ UNCHANGED <<alive, modules_, pushLog, sysUnbindLog, recorded, sysBound, lastBind, visited, cur>>

BindSoftwareCall(s, d) ==
    /\ BindSoftware(s, d)
    /\ UNCHANGED <<sysVars, modVars, loopVars>>

\* whether UnbindAll() calls RK_MPI_SYS_UnBind for a binding
NeedsUnBindMutNever(b) ==
    FALSE

NeedsUnBind(b) ==
    b.bind_type = "kHardware"

\* the RK_MPI_SYS_UnBind calls of one UnbindAll(), from binding i on, made on
\* a driver that holds the pairs of bound; fails holds the positions whose
\* call fails for a reason of its own
RECURSIVE UnbindCalls(_, _, _, _)
UnbindCalls(bs, i, fails, bound) ==
    IF i > Len(bs) THEN <<>>
    ELSE IF NeedsUnBind(bs[i])
    THEN LET src_chn == ToMppChn(bs[i].src_endpoint)
             dst_chn == ToMppChn(bs[i].dst_endpoint)
             ok == SysUnBindRet(bound, src_chn, dst_chn, i \in fails)
         IN  <<SysUnBind(src_chn, dst_chn, ok)>>
             \o UnbindCalls(bs, i + 1, fails, IF ok THEN bound \ {<<src_chn, dst_chn>>} ELSE bound)
    ELSE UnbindCalls(bs, i + 1, fails, bound)

\* the pairs the driver still holds after a sequence of unbind calls
AfterUnbinds(bound, made) ==
    bound \ {<<made[i].src, made[i].dst>> : i \in {j \in 1..Len(made) : made[j].ok}}

\* what UnbindAll() leaves in bindings_
ClearedMutKeepsFailed(bs, fails) ==
    SelectSeq(bs, LAMBDA b : IsHardware(b) /\ fails # {})

Cleared(bs, fails) ==
    <<>>

\* the body of Pipeline::UnbindAll()
UnbindAllBody(fails) ==
    LET made == UnbindCalls(bindings_, 1, fails, sysBound)
    IN  /\ sysUnbindLog' = sysUnbindLog \o made
        /\ sysBound' = AfterUnbinds(sysBound, made)
        /\ bindings_' = Cleared(bindings_, fails)

\* Pipeline::UnbindAll()
UnbindAll(fails) ==
    /\ CanCall
    /\ UnbindAllBody(fails)
    /\ lastPipe' = PipeResult("UnbindAll", TRUE)
    /\ UNCHANGED <<alive, modules_, output_callback, pushLog, recorded, lastBind, visited, cur>>
    /\ UNCHANGED <<sysVars, modVars, loopVars>>

\* module->Initialize() / module->Start() / module->Stop() through the ModulePtr
InitializeOf(m) ==
    CASE m = "vc" -> \E res \in CaptureOutcomes : VC_InitializeCall(res)
      [] m = "ve" -> \E ok \in BOOLEAN : VE_Initialize(ok)
      [] m = "fs" -> \E dirOk \in BOOLEAN : FS_Initialize(dirOk)
      [] m = "rs" -> \E res \in RtspOutcomes : RS_Initialize(res)

StartOf(m) ==
    CASE m = "vc" -> VC_Start
      [] m = "ve" -> VE_Start
      [] m = "fs" -> FS_Start
      [] m = "rs" -> RS_Start

StopOf(m) ==
    CASE m = "vc" -> VC_Stop
      [] m = "ve" -> VE_Stop
      [] m = "fs" -> FS_Stop
      [] m = "rs" -> RS_Stop

\* one module call of a bulk operation and what it returned (TRUE for Stop())
Visit(m, r) == [m |-> m, ret |-> r]

\* Pipeline::InitializeAll() / StartAll() / StopAll() / ~Pipeline() is entered
P_Begin(op) ==
    /\ CanCall
    /\ visited' = {}
    /\ IF modules_ = {} /\ op # "Destroy"
       THEN /\ lastPipe' = PipeResult(op, TRUE)
            /\ UNCHANGED cur
       ELSE /\ cur' = [op |-> op, todo |-> modules_]
            /\ UNCHANGED lastPipe
    /\ UNCHANGED <<alive, modules_, bindings_, output_callback, pushLog, sysUnbindLog, recorded,
                   sysBound, lastBind>>
    /\ UNCHANGED <<sysVars, modVars, loopVars>>

\* whether InitializeAll() / StartAll() goes on after a module call returned r
GoesOnMutIgnoresFailure(r) ==
    TRUE

GoesOn(r) ==
    r

\* what InitializeAll() / StartAll() goes on with after a failed module call:
\* nothing, it returns false
AfterFailureMutStopsAll(op) ==
    [op |-> "StopAll", todo |-> modules_]

AfterFailure(op) ==
    PipeIdle

\* one iteration of InitializeAll() / StartAll(): the first failure returns false
P_VisitStep(m) ==
    /\ cur.op \in {"InitializeAll", "StartAll"}
    /\ m \in cur.todo
    /\ IF cur.op = "InitializeAll" THEN InitializeOf(m) ELSE StartOf(m)
    /\ visited' = visited \cup {Visit(m, lastCall'.ret)}
    /\ IF ~GoesOn(lastCall'.ret)
       THEN /\ cur' = AfterFailure(cur.op)
            /\ lastPipe' = PipeResult(cur.op, FALSE)
       ELSE IF cur.todo = {m}
       THEN /\ cur' = PipeIdle
            /\ lastPipe' = PipeResult(cur.op, TRUE)
       ELSE /\ cur' = [cur EXCEPT !.todo = @ \ {m}]
            /\ UNCHANGED lastPipe
    /\ UNCHANGED <<alive, modules_, bindings_, output_callback, pushLog, sysUnbindLog, recorded,
                   sysBound, lastBind>>
    /\ UNCHANGED loopVars

\* whether StopAll() calls Stop() on a module
StopsModuleMutOnlyRunning(state) ==
    state = "kRunning"

StopsModule(state) ==
    TRUE

\* one iteration of StopAll(), called directly or by ~Pipeline()
P_StopStep(m) ==
    /\ cur.op \in {"StopAll", "Destroy"}
    /\ m \in cur.todo
    /\ IF StopsModule(StateOf(m))
       THEN /\ StopOf(m)
            /\ visited' = visited \cup {Visit(m, TRUE)}
       ELSE /\ UNCHANGED <<sysVars, modVars, visited>>
    /\ IF cur.todo = {m} /\ cur.op = "StopAll"
       THEN /\ cur' = PipeIdle
            /\ lastPipe' = PipeResult("StopAll", TRUE)
       ELSE /\ cur' = [cur EXCEPT !.todo = @ \ {m}]
            /\ UNCHANGED lastPipe
    /\ UNCHANGED <<alive, modules_, bindings_, output_callback, pushLog, sysUnbindLog, recorded,
                   sysBound, lastBind>>
    /\ UNCHANGED loopVars

\* whether ~Pipeline() has finished StopAll() when it calls UnbindAll()
StopAllDoneMutUnbindsFirst(todo) ==
    TRUE

StopAllDone(todo) ==
    todo = {}

\* ~Pipeline() after StopAll(): UnbindAll(), then the members are destroyed
P_DestroyUnbind(fails) ==
    /\ cur.op = "Destroy"
    /\ StopAllDone(cur.todo)
    /\ UnbindAllBody(fails)
    /\ alive' = FALSE
    /\ modules_' = {}
    /\ cur' = PipeIdle
    /\ lastPipe' = PipeResult("Destroy", TRUE)
    /\ UNCHANGED <<output_callback, pushLog, recorded, lastBind, visited>>
    /\ UNCHANGED <<sysVars, modVars, loopVars>>

PipeNext ==
    \/ \E m \in {"vc", "fs", "null"} : RegisterModule(m)
    \/ \E src \in Endpoints, fault \in BOOLEAN :
         \E dst \in Endpoints \ {src} : BindHardware(src, dst, fault)
    \/ \E s \in {"vc", "null"}, d \in {"fs", "null"} : BindSoftwareCall(s, d)
    \/ \E fails \in SUBSET (1..Len(bindings_)) : UnbindAll(fails)
    \/ \E op \in {"StopAll", "Destroy"} : P_Begin(op)
    \/ \E m \in Modules : P_StopStep(m)
    \/ \E fails \in SUBSET (1..Len(bindings_)) : P_DestroyUnbind(fails)

\* the control thread calls Initialize() / Start() of a module itself
U_Initialize(m) ==
    /\ CanCall
    /\ InitializeOf(m)
    /\ UNCHANGED <<loopVars, pipeVars>>

U_Start(m) ==
    /\ CanCall
    /\ StartOf(m)
    /\ UNCHANGED <<loopVars, pipeVars>>

\* the Pipeline with a Source, a file Sink and a network Sink: registration
\* and the bulk operations over modules_
LifeNext ==
    \/ \E m \in Modules : RegisterModule(m)
    \/ \E op \in {"InitializeAll", "StartAll", "StopAll"} : P_Begin(op)
    \/ \E m \in Modules : P_VisitStep(m)
    \/ \E m \in Modules : P_StopStep(m)

\* the Pipeline with a Source bound in hardware to an Encoder, up to its destruction
DestroyNext ==
    \/ \E m \in Sources : RegisterModule(m)
    \/ \E m \in Sources : U_Initialize(m)
    \/ \E m \in Sources : U_Start(m)
    \/ \E fault \in BOOLEAN : BindHardware(ViEndpoint, VencEndpoint, fault)
    \/ \E fails \in SUBSET (1..Len(bindings_)) : UnbindAll(fails)
    \/ P_Begin("Destroy")
    \/ \E m \in Modules : P_StopStep(m)
    \/ \E fails \in SUBSET (1..Len(bindings_)) : P_DestroyUnbind(fails)

(***************************************************************************)
(* The forwarding closure of BindSoftware() and the lifetime of the        *)
(* modules.  A module is owned through std::shared_ptr by the application, *)
(* by modules_, by every Software BindInfo that names it and, while the    *)
(* closure runs, by the pointer weak_dst.lock() returned; its destructor   *)
(* runs in the thread that drops the last of them.                         *)
(***************************************************************************)
FireIdle == [pc |-> "idle", src |-> "none", dst |-> "none", frame |-> 0, holds |-> FALSE]

WeakInit ==
    /\ userRef = [m \in Modules |-> TRUE]
    /\ destroyed = {}
    /\ fire = FireIdle
    /\ fireLog = <<>>

\* use_count() of the module's control block
StrongCount(m) ==
    (IF userRef[m] THEN 1 ELSE 0)
    + (IF m \in modules_ THEN 1 ELSE 0)
    + Len(SelectSeq(bindings_, LAMBDA b : b.src_module = m))
    + Len(SelectSeq(bindings_, LAMBDA b : b.dst_module = m))
    + (IF fire.holds /\ fire.dst = m THEN 1 ELSE 0)

\* one entry of fireLog: ev is "push" (dst->PushFrame called) or "rel" (the
\* frame's last FramePtr destroyed); live tells whether dst was owned by anyone
FireEvent(ev, f, d, live) == [ev |-> ev, frame |-> f, dst |-> d, live |-> live]

NumFired == Len(SelectSeq(fireLog, LAMBDA e : e.ev = "rel")) + (IF fire.pc = "idle" THEN 0 ELSE 1)

\* BindSoftware(src, dst) called with ModulePtrs the application holds,
\* while no closure is running
W_BindSoftware(s, d) ==
    /\ userRef[s] /\ userRef[d]
    /\ fire.pc = "idle"
    /\ BindSoftwareCall(s, d)
    /\ UNCHANGED weakVars

W_UnbindAll ==
    /\ UnbindAll({})
    /\ UNCHANGED weakVars

\* the application resets its ModulePtr to a destination module
UserDrop(d) ==
    /\ CanCall
    /\ userRef[d]
    /\ userRef' = [userRef EXCEPT ![d] = FALSE]
    /\ UNCHANGED <<destroyed, fire, fireLog>>
    /\ UNCHANGED <<sysVars, modVars, loopVars, pipeVars>>

\* the destructor of a Sink, run when the last ModulePtr is gone:
\* ~FileSaver() { Stop(); } / ~RtspServer() { Stop(); }
SinkDestruct(d) ==
    /\ d \in {"fs", "rs"}
    /\ StrongCount(d) = 0
    /\ d \notin destroyed
    /\ destroyed' = destroyed \cup {d}
    /\ StopOf(d)
    /\ UNCHANGED <<userRef, fire, fireLog>>
    /\ UNCHANGED <<loopVars, pipeVars>>

\* MediaModule::InvokeOutputCallback(frame) called by module s:
\* if (output_callback_) output_callback_(std::move(frame))
InvokeOutputCallback(s) ==
    /\ fire.pc = "idle"
    /\ NumFired < MaxFrames
    /\ IF output_callback[s] = "none"
       THEN /\ fireLog' = Append(fireLog, FireEvent("rel", NumFired + 1, "none", FALSE))
            /\ UNCHANGED fire
       ELSE /\ fire' = [pc |-> "closure", src |-> s, dst |-> output_callback[s],
                        frame |-> NumFired + 1, holds |-> FALSE]
            /\ UNCHANGED fireLog
    /\ UNCHANGED <<userRef, destroyed>>
    /\ UNCHANGED <<sysVars, modVars, loopVars, pipeVars>>

\* the test of the closure: if (auto dst = weak_dst.lock())
CallsPushFrameMutUnchecked(locked) ==
    TRUE

CallsPushFrame(locked) ==
    locked

\* auto dst = weak_dst.lock(): a ModulePtr when the module is still owned
F_Lock ==
    /\ fire.pc = "closure"
    /\ fire' = [fire EXCEPT !.holds = StrongCount(fire.dst) > 0,
                            !.pc = IF CallsPushFrame(StrongCount(fire.dst) > 0) THEN "locked" ELSE "nolock"]
    /\ UNCHANGED <<userRef, destroyed, fireLog>>
    /\ UNCHANGED <<sysVars, modVars, loopVars, pipeVars>>

\* dst->PushFrame(std::move(frame)): the base implementation takes the frame
F_Push ==
    /\ fire.pc = "locked"
    /\ pushLog' = PushFrame(pushLog, fire.dst, fire.frame)
    /\ fireLog' = Append(fireLog, FireEvent("push", fire.frame, fire.dst,
                                            StrongCount(fire.dst) > 0 /\ fire.dst \notin destroyed))
    /\ fire' = [fire EXCEPT !.pc = "pushed"]
    /\ UNCHANGED <<userRef, destroyed>>
    /\ UNCHANGED <<alive, modules_, bindings_, output_callback, sysUnbindLog, recorded, sysBound,
                   lastBind, visited, cur, lastPipe>>
    /\ UNCHANGED <<sysVars, modVars, loopVars>>

\* the closure returns: dst and the frame go out of scope
F_Return ==
    /\ fire.pc \in {"pushed", "nolock"}
    /\ fireLog' = Append(fireLog, FireEvent("rel", fire.frame, fire.dst, fire.holds))
    /\ fire' = FireIdle
    /\ UNCHANGED <<userRef, destroyed>>
    /\ UNCHANGED <<sysVars, modVars, loopVars, pipeVars>>

\* a Source bound in software to the Sinks, which the application lets go
WeakNext ==
    \/ \E d \in {"fs", "rs"} : W_BindSoftware("vc", d)
    \/ W_UnbindAll
    \/ \E d \in {"fs", "rs"} : UserDrop(d)
    \/ \E d \in {"fs", "rs"} : SinkDestruct(d)
    \/ InvokeOutputCallback("vc")
    \/ F_Lock
    \/ F_Push
    \/ F_Return

(***************************************************************************)
(* RtspServer::Stop() on the control thread and RtspServer::PushFrame() /  *)
(* PushData() on the thread of the encoder's callback, statement by        *)
(* statement.  demo_ and session_ are plain pointers and no lock is taken, *)
(* so a member read in PushData() yields either the value it had at the    *)
(* null test or its current value.                                         *)
(***************************************************************************)
RtspInit ==
    /\ rstop = "idle"
    /\ rpush = "idle"
    /\ rtspUsed = {}

\* Initialize() / Start() of the RtspServer, called by the control thread
R_Initialize(res) ==
    /\ rstop = "idle"
    /\ RS_Initialize(res)
    /\ UNCHANGED <<loopVars, pipeVars, rtspVars>>

R_Start ==
    /\ rstop = "idle"
    /\ RS_Start
    /\ UNCHANGED <<loopVars, pipeVars, rtspVars>>

\* Stop(): if (GetState() == kUninitialized) return
R_StopCall ==
    /\ rstop = "idle"
    /\ IF rs.state = "kUninitialized"
       THEN /\ lastCall' = Call("Stop", "rs", TRUE, rs.state)
            /\ UNCHANGED rstop
       ELSE /\ rstop' = "del_session"
            /\ UNCHANGED lastCall
    /\ UNCHANGED <<vc, ve, fs, rs, hw, created, spawned, started, rpush, rtspUsed>>
    /\ UNCHANGED <<sysVars, loopVars, pipeVars>>

\* Stop(): if (session_) rtsp_del_session(session_)
R_DelSession ==
    /\ rstop = "del_session"
    /\ hw' = IF rs.session THEN [hw EXCEPT !.rtsp_session = FALSE] ELSE hw
    /\ rstop' = IF rs.session THEN "null_session" ELSE "del_demo"
    /\ UNCHANGED <<vc, ve, fs, rs, created, spawned, started, lastCall, rpush, rtspUsed>>
    /\ UNCHANGED <<sysVars, loopVars, pipeVars>>

\* Stop(): session_ = nullptr
R_NullSession ==
    /\ rstop = "null_session"
    /\ rs' = [rs EXCEPT !.session = FALSE]
    /\ rstop' = "del_demo"
    /\ UNCHANGED <<vc, ve, fs, hw, created, spawned, started, lastCall, rpush, rtspUsed>>
    /\ UNCHANGED <<sysVars, loopVars, pipeVars>>

\* Stop(): if (demo_) rtsp_del_demo(demo_)
R_DelDemo ==
    /\ rstop = "del_demo"
    /\ hw' = IF rs.demo THEN [hw EXCEPT !.rtsp_demo = FALSE] ELSE hw
    /\ rstop' = IF rs.demo THEN "null_demo" ELSE "set_state"
    /\ UNCHANGED <<vc, ve, fs, rs, created, spawned, started, lastCall, rpush, rtspUsed>>
    /\ UNCHANGED <<sysVars, loopVars, pipeVars>>

\* Stop(): demo_ = nullptr
R_NullDemo ==
    /\ rstop = "null_demo"
    /\ rs' = [rs EXCEPT !.demo = FALSE]
    /\ rstop' = "set_state"
    /\ UNCHANGED <<vc, ve, fs, hw, created, spawned, started, lastCall, rpush, rtspUsed>>
    /\ UNCHANGED <<sysVars, loopVars, pipeVars>>

\* Stop(): SetState(kStopped)
R_SetStopped ==
    /\ rstop = "set_state"
    /\ rs' = [rs EXCEPT !.state = "kStopped"]
    /\ lastCall' = Call("Stop", "rs", TRUE, rs.state)
    /\ rstop' = "idle"
    /\ UNCHANGED <<vc, ve, fs, hw, created, spawned, started, rpush, rtspUsed>>
    /\ UNCHANGED <<sysVars, loopVars, pipeVars>>

\* PushFrame(frame): if (!data) return false; PushData(data, size, pts)
U_PushFrame(hasData) ==
    /\ rpush = "idle"
    /\ rpush' = IF hasData THEN "state_check" ELSE "idle"
    /\ UNCHANGED <<rstop, rtspUsed>>
    /\ UNCHANGED <<sysVars, modVars, loopVars, pipeVars>>

\* PushData(): if (GetState() != kRunning) return false
U_StateCheck ==
    /\ rpush = "state_check"
    /\ rpush' = IF rs.state # "kRunning" THEN "idle" ELSE "demo_check"
    /\ UNCHANGED <<rstop, rtspUsed>>
    /\ UNCHANGED <<sysVars, modVars, loopVars, pipeVars>>

\* PushData(): if (!demo_ || ...) return false
U_DemoCheck ==
    /\ rpush = "demo_check"
    /\ rpush' = IF ~rs.demo THEN "idle" ELSE "session_check"
    /\ UNCHANGED <<rstop, rtspUsed>>
    /\ UNCHANGED <<sysVars, modVars, loopVars, pipeVars>>

\* PushData(): if (... || !session_ || ...) return false
U_SessionCheck ==
    /\ rpush = "session_check"
    /\ rpush' = IF ~rs.session THEN "idle" ELSE "tx_video"
    /\ UNCHANGED <<rstop, rtspUsed>>
    /\ UNCHANGED <<sysVars, modVars, loopVars, pipeVars>>

\* the handle a call passes is one the library has deleted: the pointer is
\* not null (cached from the null test, or still set) and the object is gone
PassesDeleted(cached, member, exists) ==
    (cached \/ member) /\ ~exists

\* PushData(): rtsp_tx_video(session_, data, len, pts); if (ret < 0) return false
U_TxVideo(cached, txOk) ==
    /\ rpush = "tx_video"
    /\ rtspUsed' = IF PassesDeleted(cached, rs.session, hw.rtsp_session)
                    THEN rtspUsed \cup {"session"} ELSE rtspUsed
    /\ rpush' = IF txOk THEN "do_event" ELSE "idle"
    /\ UNCHANGED rstop
    /\ UNCHANGED <<sysVars, modVars, loopVars, pipeVars>>

\* PushData(): rtsp_do_event(demo_); return true
U_DoEvent(cached) ==
    /\ rpush = "do_event"
    /\ rtspUsed' = IF PassesDeleted(cached, rs.demo, hw.rtsp_demo)
                    THEN rtspUsed \cup {"demo"} ELSE rtspUsed
    /\ rpush' = "idle"
    /\ UNCHANGED rstop
    /\ UNCHANGED <<sysVars, modVars, loopVars, pipeVars>>

RtspNext ==
    \/ \E res \in RtspOutcomes : R_Initialize(res)
    \/ R_Start
    \/ R_StopCall
    \/ R_DelSession
    \/ R_NullSession
    \/ R_DelDemo
    \/ R_NullDemo
    \/ R_SetStopped
    \/ \E hasData \in BOOLEAN : U_PushFrame(hasData)
    \/ U_StateCheck
    \/ U_DemoCheck
    \/ U_SessionCheck
    \/ \E cached, txOk \in BOOLEAN : U_TxVideo(cached, txOk)
    \/ \E cached \in BOOLEAN : U_DoEvent(cached)

(***************************************************************************)
(* Acquisition loops of the Source (VideoCapture::CaptureThread) and the   *)
(* Encoder (VideoEncoder::GetStreamThread), with Start() and Stop() of     *)
(* the control thread taken statement by statement.  The typed callback    *)
(* (SetYuvFrameCallback / SetEncodedDataCallback) is installed while the   *)
(* module has no acquisition thread, as every example program does.        *)
(***************************************************************************)
AcquireResults == {"ok", "empty", "error"}

ModRec(m) == IF m = "vc" THEN vc ELSE ve

\* one entry of events: ev is "acq", "cb_in", "cb_out" or "rel"; cb and out
\* are the module's typed callback and output callback when the frame was acquired
Event(ev, id, cb, out) == [ev |-> ev, id |-> id, cb |-> cb, out |-> out]

IsAcq(e) == e.ev = "acq"

\* frames the driver has handed out to the two loops
NumAcquired(m) == Len(SelectSeq(events[m], IsAcq))

LoopInit ==
    /\ ctl = [m |-> "none", pc |-> "idle"]
    /\ loop = [m \in Sources |-> [pc |-> "none", frame |-> 0, ret |-> "none"]]
    /\ callback = [m \in Sources |-> FALSE]
    /\ events = [m \in Sources |-> <<>>]

\* Initialize() of the Source / Encoder, called by the control thread
T_Initialize(m) ==
    /\ ctl.pc = "idle"
    /\ IF m = "vc" THEN \E res \in CaptureOutcomes : VC_InitializeCall(res)
                   ELSE \E ok \in BOOLEAN : VE_Initialize(ok)
    /\ UNCHANGED loopVars
    /\ UNCHANGED pipeVars

\* SetYuvFrameCallback(cb) / SetEncodedDataCallback(cb); set is FALSE for an empty cb
SetCallback(m, set) ==
    /\ ctl.pc = "idle"
    /\ loop[m].pc = "none"
    /\ callback' = [callback EXCEPT ![m] = set]
    /\ UNCHANGED <<ctl, loop, events>>
    /\ UNCHANGED <<sysVars, modVars, pipeVars>>

\* Start(): the state test, running_.store(true) and the thread's creation
T_StartCall(m) ==
    /\ ctl.pc = "idle"
    /\ spawned.vc + spawned.ve < MaxStarts
    /\ IF ~CanStart(ModRec(m).state)
       THEN /\ lastCall' = Call("Start", m, FALSE, ModRec(m).state)
            /\ UNCHANGED <<vc, ve, spawned, ctl, loop>>
       ELSE /\ vc' = IF m = "vc" THEN [vc EXCEPT !.running = TRUE, !.thread = TRUE] ELSE vc
            /\ ve' = IF m = "ve" THEN [ve EXCEPT !.running = TRUE, !.thread = TRUE] ELSE ve
            /\ spawned' = [spawned EXCEPT ![m] = @ + 1]
            /\ loop' = [loop EXCEPT ![m] = [pc |-> "check", frame |-> 0, ret |-> "none"]]
            /\ ctl' = [m |-> m, pc |-> "set_running"]
            /\ UNCHANGED lastCall
    /\ UNCHANGED <<fs, rs, hw, created, started, callback, events>>
    /\ UNCHANGED <<sysVars, pipeVars>>

\* Start(): SetState(kRunning); return true
T_StartReturns ==
    /\ ctl.pc = "set_running"
    /\ lastCall' = Call("Start", ctl.m, TRUE, ModRec(ctl.m).state)
    /\ vc' = IF ctl.m = "vc" THEN [vc EXCEPT !.state = "kRunning"] ELSE vc
    /\ ve' = IF ctl.m = "ve" THEN [ve EXCEPT !.state = "kRunning"] ELSE ve
    /\ started' = started \cup {ctl.m}
    /\ ctl' = [m |-> "none", pc |-> "idle"]
    /\ UNCHANGED <<fs, rs, hw, created, spawned, loop, callback, events>>
    /\ UNCHANGED <<sysVars, pipeVars>>

\* Stop(): if (!running_.load()) return; running_.store(false)
T_StopCall(m) ==
    /\ ctl.pc = "idle"
    /\ IF ~ModRec(m).running
       THEN /\ lastCall' = Call("Stop", m, TRUE, ModRec(m).state)
            /\ UNCHANGED <<vc, ve, ctl>>
       ELSE /\ vc' = IF m = "vc" THEN [vc EXCEPT !.running = FALSE] ELSE vc
            /\ ve' = IF m = "ve" THEN [ve EXCEPT !.running = FALSE] ELSE ve
            /\ ctl' = [m |-> m, pc |-> "join"]
            /\ UNCHANGED lastCall
    /\ UNCHANGED <<fs, rs, hw, created, spawned, started, loop, callback, events>>
    /\ UNCHANGED <<sysVars, pipeVars>>

\* what thread_.join() waits for
JoinedMutNoJoin(lp) ==
    TRUE

Joined(lp) ==
    lp.pc = "exited"

\* Stop(): thread_.join() returns; SetState(kStopped)
T_StopJoin ==
    /\ ctl.pc = "join"
    /\ Joined(loop[ctl.m])
    /\ lastCall' = Call("Stop", ctl.m, TRUE, ModRec(ctl.m).state)
    /\ vc' = IF ctl.m = "vc" THEN [vc EXCEPT !.thread = FALSE, !.state = "kStopped"] ELSE vc
    /\ ve' = IF ctl.m = "ve" THEN [ve EXCEPT !.thread = FALSE, !.state = "kStopped"] ELSE ve
    /\ loop' = [loop EXCEPT ![ctl.m].pc = IF @ = "exited" THEN "none" ELSE @]
    /\ ctl' = [m |-> "none", pc |-> "idle"]
    /\ UNCHANGED <<fs, rs, hw, created, spawned, started, callback, events>>
    /\ UNCHANGED <<sysVars, pipeVars>>

\* the loop condition: while (running_.load())
LoopContinuesMutIgnoresFlag(running) ==
    TRUE

LoopContinues(running) ==
    running

\* while (running_.load()): the next iteration starts or the thread function returns
L_Check(m) ==
    /\ loop[m].pc = "check"
    /\ loop' = [loop EXCEPT ![m].pc = IF LoopContinues(ModRec(m).running) THEN "get" ELSE "exited",
                             ![m].ret = "none"]
    /\ UNCHANGED <<ctl, callback, events>>
    /\ UNCHANGED <<sysVars, modVars, pipeVars>>

\* VideoCapture::GetFrame() returns nullopt without a driver call unless the
\* state is Initialized or Running; the encoder loop has no such test
CallsDriver(m) ==
    m = "ve" \/ vc.state \in {"kInitialized", "kRunning"}

\* GetFrame(100) / RK_MPI_VENC_GetStream(chn, &stream, 100) is entered
L_Get(m) ==
    /\ loop[m].pc = "get"
    /\ loop' = [loop EXCEPT ![m].pc = IF CallsDriver(m) THEN "in_acquire" ELSE "check"]
    /\ UNCHANGED <<ctl, callback, events>>
    /\ UNCHANGED <<sysVars, modVars, pipeVars>>

\* where the loop goes when the driver call reports a timeout or an error
AfterAcquireFailMutExits(res) ==
    IF res = "error" THEN "exited" ELSE "check"

AfterAcquireFail(res) ==
    "check"

\* the driver call returns: a frame, nothing within the timeout, or an error
L_AcquireReturns(m, res) ==
    /\ loop[m].pc = "in_acquire"
    /\ IF res = "ok"
       THEN /\ NumAcquired("vc") + NumAcquired("ve") < MaxFrames
            /\ loop' = [loop EXCEPT ![m] = [pc |-> "got", frame |-> NumAcquired(m) + 1, ret |-> res]]
            /\ events' = [events EXCEPT ![m] =
                             Append(@, Event("acq", NumAcquired(m) + 1, callback[m], output_callback[m]))]
       ELSE /\ loop' = [loop EXCEPT ![m] = [pc |-> AfterAcquireFail(res), frame |-> 0, ret |-> res]]
            /\ UNCHANGED events
    /\ UNCHANGED <<ctl, callback>>
    /\ UNCHANGED <<sysVars, modVars, pipeVars>>

\* if (frame->IsValid()) if (yuv_callback_) ... / if (encoded_callback_) ...
DeliversMutAlways(valid, cb) ==
    valid

DeliversMutNever(valid, cb) ==
    FALSE

Delivers(valid, cb) ==
    valid /\ cb

\* the callback is invoked with the frame moved into its parameter; without a
\* callback the frame object goes out of scope and its destructor releases it
L_Deliver(m) ==
    /\ loop[m].pc = "got"
    /\ IF Delivers(loop[m].frame # 0, callback[m])
       THEN /\ loop' = [loop EXCEPT ![m].pc = "in_callback"]
            /\ events' = [events EXCEPT ![m] = Append(@, Event("cb_in", loop[m].frame, FALSE, "none"))]
       ELSE /\ loop' = [loop EXCEPT ![m].pc = "check", ![m].frame = 0]
            /\ events' = [events EXCEPT ![m] = Append(@, Event("rel", loop[m].frame, FALSE, "none"))]
    /\ UNCHANGED <<ctl, callback>>
    /\ UNCHANGED <<sysVars, modVars, pipeVars>>

\* the callback returns: its parameter is destroyed and releases the frame
L_CallbackReturns(m) ==
    /\ loop[m].pc = "in_callback"
    /\ loop' = [loop EXCEPT ![m].pc = "check", ![m].frame = 0]
    /\ events' = [events EXCEPT ![m] = @ \o <<Event("cb_out", loop[m].frame, FALSE, "none"),
                                              Event("rel", loop[m].frame, FALSE, "none")>>]
    /\ UNCHANGED <<ctl, callback>>
    /\ UNCHANGED <<sysVars, modVars, pipeVars>>

\* one step of the acquisition thread of m
LoopStep(m) ==
    \/ L_Check(m)
    \/ L_Get(m)
    \/ \E res \in AcquireResults : L_AcquireReturns(m, res)
    \/ L_Deliver(m)
    \/ L_CallbackReturns(m)

\* the calls of the control thread on module m and the steps of its thread
LoopNextOf(m) ==
    \/ T_Initialize(m)
    \/ \E set \in BOOLEAN : SetCallback(m, set)
    \/ T_StartCall(m)
    \/ T_StartReturns
    \/ T_StopCall(m)
    \/ T_StopJoin
    \/ L_Check(m)
    \/ L_Get(m)
    \/ \E res \in AcquireResults : L_AcquireReturns(m, res)
    \/ L_Deliver(m)
    \/ L_CallbackReturns(m)

LoopNext ==
    \E m \in Sources : LoopNextOf(m)

\* the Source with a software binding to a Sink
BindNext ==
    \/ LoopNextOf("vc")
    \/ \E d \in {"fs", "rs"} : BindSoftwareCall("vc", d)

(***************************************************************************)
(* Destruction of a Source / Encoder (~VideoCapture, ~VideoEncoder), run   *)
(* by the control thread when the application lets the module go, taken    *)
(* statement by statement, with the module's acquisition thread.           *)
(***************************************************************************)
DtorInit ==
    /\ dtor = [m \in Sources |-> "alive"]
    /\ dtorLog = [m \in Sources |-> <<>>]

\* the control thread is inside a destructor
DtorBusy == \E m \in Sources : dtor[m] \notin {"alive", "gone"}

\* the first statement of ~VideoCapture() after Stop()
FirstTeardownMutGuardFirst ==
    "guard"

FirstTeardown ==
    "deinit_vi"

\* where the destructor of m goes on when its Stop() has returned
AfterStop(m) == IF m = "vc" THEN FirstTeardown ELSE "destroy_chn"

\* a call of the control thread on a module that exists
X_Initialize(m) ==
    /\ ~DtorBusy /\ dtor[m] = "alive"
    /\ T_Initialize(m)
    /\ UNCHANGED extVars

X_StartCall(m) ==
    /\ ~DtorBusy /\ dtor[m] = "alive"
    /\ T_StartCall(m)
    /\ UNCHANGED extVars

X_StartReturns ==
    /\ T_StartReturns
    /\ UNCHANGED extVars

X_StopCall(m) ==
    /\ ~DtorBusy /\ dtor[m] = "alive"
    /\ T_StopCall(m)
    /\ UNCHANGED extVars

\* ~VideoCapture() / ~VideoEncoder() begins: Stop()
X_Destruct(m) ==
    /\ ~DtorBusy /\ dtor[m] = "alive"
    /\ T_StopCall(m)
    /\ dtor' = [dtor EXCEPT ![m] = IF ModRec(m).running THEN "in_stop" ELSE AfterStop(m)]
    /\ dtorLog' = [dtorLog EXCEPT ![m] = IF ModRec(m).running THEN @ ELSE Append(@, "stopped")]
    /\ UNCHANGED <<weakVars, rtspVars, streamVars, saverVars>>

\* join() returns in a Stop() called directly or by the destructor
X_StopJoin ==
    /\ T_StopJoin
    /\ dtor' = [dtor EXCEPT ![ctl.m] = IF @ = "in_stop" THEN AfterStop(ctl.m) ELSE @]
    /\ dtorLog' = [dtorLog EXCEPT ![ctl.m] = IF dtor[ctl.m] = "in_stop" THEN Append(@, "stopped") ELSE @]
    /\ UNCHANGED <<weakVars, rtspVars, streamVars, saverVars>>

X_LoopStep(m) ==
    /\ LoopStep(m)
    /\ UNCHANGED extVars

\* ~VideoCapture(): if (vi_initialized_) DeinitVi()
D_DeinitVi ==
    /\ dtor["vc"] = "deinit_vi"
    /\ IF vc.vi_initialized
       THEN /\ hw' = [hw EXCEPT !.vi_chn = FALSE, !.vi_dev = FALSE]
            /\ vc' = [vc EXCEPT !.vi_initialized = FALSE]
            /\ dtorLog' = [dtorLog EXCEPT !["vc"] = @ \o <<"vi_chn_off", "vi_dev_off">>]
       ELSE UNCHANGED <<hw, vc, dtorLog>>
    /\ dtor' = [dtor EXCEPT !["vc"] = "deinit_isp"]
    /\ UNCHANGED <<ve, fs, rs, created, spawned, started, lastCall>>
    /\ UNCHANGED <<sysVars, loopVars, pipeVars, weakVars, rtspVars, streamVars, saverVars>>

\* ~VideoCapture(): if (isp_initialized_) DeinitIsp()
D_DeinitIsp ==
    /\ dtor["vc"] = "deinit_isp"
    /\ IF vc.isp_initialized
       THEN /\ hw' = [hw EXCEPT !.isp = FALSE]
            /\ vc' = [vc EXCEPT !.isp_initialized = FALSE]
            /\ dtorLog' = [dtorLog EXCEPT !["vc"] = Append(@, "isp_off")]
       ELSE UNCHANGED <<hw, vc, dtorLog>>
    /\ dtor' = [dtor EXCEPT !["vc"] = "guard"]
    /\ UNCHANGED <<ve, fs, rs, created, spawned, started, lastCall>>
    /\ UNCHANGED <<sysVars, loopVars, pipeVars, weakVars, rtspVars, streamVars, saverVars>>

\* ~VideoCapture(): sys_guard_.reset(), i.e. ~SystemGuard(): if (is_valid_) Deinitialize()
D_GuardReset ==
    /\ dtor["vc"] = "guard"
    /\ IF vc.sys_guard = "valid"
       THEN /\ SysDeinitializeDone
            /\ dtorLog' = [dtorLog EXCEPT !["vc"] = Append(@, "sys_released")]
       ELSE UNCHANGED <<ref_count, sys_initialized, hwUp, driverLog, dtorLog>>
    /\ vc' = [vc EXCEPT !.sys_guard = "null"]
    /\ dtor' = [dtor EXCEPT !["vc"] = "gone"]
    /\ UNCHANGED <<ve, fs, rs, hw, created, spawned, started, lastCall>>
    /\ UNCHANGED sysCallVars
    /\ UNCHANGED <<loopVars, pipeVars, weakVars, rtspVars, streamVars, saverVars>>

\* ~VideoEncoder(): DestroyChannel()
D_DestroyChannel ==
    /\ dtor["ve"] = "destroy_chn"
    /\ IF ve.channel_created
       THEN /\ hw' = [hw EXCEPT !.venc_chn = FALSE]
            /\ ve' = [ve EXCEPT !.channel_created = FALSE]
            /\ dtorLog' = [dtorLog EXCEPT !["ve"] = Append(@, "venc_off")]
       ELSE UNCHANGED <<hw, ve, dtorLog>>
    /\ dtor' = [dtor EXCEPT !["ve"] = "gone"]
    /\ UNCHANGED <<vc, fs, rs, created, spawned, started, lastCall>>
    /\ UNCHANGED <<sysVars, loopVars, pipeVars, weakVars, rtspVars, streamVars, saverVars>>

\* a Source and an Encoder from construction to destruction
DtorNext ==
    \/ \E m \in Sources : X_Initialize(m)
    \/ \E m \in Sources : X_StartCall(m)
    \/ X_StartReturns
    \/ \E m \in Sources : X_StopCall(m)
    \/ \E m \in Sources : X_Destruct(m)
    \/ X_StopJoin
    \/ \E m \in Sources : X_LoopStep(m)
    \/ D_DeinitVi
    \/ D_DeinitIsp
    \/ D_GuardReset
    \/ D_DestroyChannel

(***************************************************************************)
(* VideoEncoder::GetStreamThread, one driver call and one statement at a   *)
(* time, in its two versions: "common" (src/common/VideoEncoder.cpp) keeps *)
(* one VENC_STREAM_S outside the loop, "heap" allocates the packet         *)
(* metadata buffer of every iteration with new[].  An iteration records    *)
(* whether RK_MPI_VENC_GetStream returned RK_SUCCESS (got), the calls of   *)
(* RK_MPI_VENC_ReleaseStream (rel), and the new[] / delete[] of the        *)
(* packet buffer (alloc, free).                                            *)
(***************************************************************************)
NoIteration == [got |-> FALSE, rel |-> 0, alloc |-> 0, free |-> 0, frame |-> DeadFrame]

StreamInit ==
    /\ sloop = [pc |-> "none", variant |-> "common", cb |-> FALSE, running |-> FALSE]
    /\ scur = NoIteration
    /\ slog = <<>>

\* the iteration is over: the locals go out of scope and the loop tests running_ again
Finished(rec) ==
    /\ slog' = Append(slog, [variant |-> sloop.variant, got |-> rec.got, rel |-> rec.rel,
                             alloc |-> rec.alloc, free |-> rec.free])
    /\ scur' = NoIteration
    /\ sloop' = [sloop EXCEPT !.pc = "check"]

\* Start() with encoded_callback_ set (cb) or empty: the thread begins
G_Start(v, cb) ==
    /\ sloop.pc = "none"
    /\ slog = <<>>
    /\ sloop' = [pc |-> "check", variant |-> v, cb |-> cb, running |-> TRUE]
    /\ UNCHANGED <<scur, slog>>

\* Stop(): running_.store(false)
G_Stop ==
    /\ sloop.running
    /\ sloop' = [sloop EXCEPT !.running = FALSE]
    /\ UNCHANGED <<scur, slog>>

\* while (running_.load())
G_Check ==
    /\ sloop.pc = "check"
    /\ sloop.running => Len(slog) < MaxStreams
    /\ sloop' = [sloop EXCEPT !.pc = IF ~sloop.running THEN "exited"
                                     ELSE IF sloop.variant = "heap" THEN "alloc" ELSE "get"]
    /\ UNCHANGED <<scur, slog>>

\* VENC_PACK_S* pack_buffer = new VENC_PACK_S[1]
G_Alloc ==
    /\ sloop.pc = "alloc"
    /\ scur' = [scur EXCEPT !.alloc = @ + 1]
    /\ sloop' = [sloop EXCEPT !.pc = "get"]
    /\ UNCHANGED slog

\* the test that guards the construction of the EncodedFrame
StreamUsable(v, r, packs, ptr) ==
    IF v = "heap"
    THEN r = "RK_SUCCESS" /\ ptr /\ packs > 0
    ELSE r = "RK_SUCCESS"

\* RK_MPI_VENC_GetStream returns r and leaves u32PackCount = packs and
\* pstPack non-null (ptr) in the stream; the EncodedFrame is constructed, or
\* the else branch runs
G_GetStreamReturns(r, packs, ptr) ==
    /\ sloop.pc = "get"
    /\ LET rec == [scur EXCEPT !.got = (r = "RK_SUCCESS")]
       IN  IF StreamUsable(sloop.variant, r, packs, ptr)
           THEN /\ scur' = [rec EXCEPT !.frame =
                               CtorFrame("Enc", IF ptr THEN 1 ELSE Null, packs, Closure(1))]
                /\ sloop' = [sloop EXCEPT !.pc = "deliver"]
                /\ UNCHANGED slog
           ELSE Finished([rec EXCEPT !.free = IF sloop.variant = "heap" THEN @ + 1 ELSE @])

\* the iteration record after the destructor of the EncodedFrame f has run:
\* release_cb calls RK_MPI_VENC_ReleaseStream and, in the heap version, delete[]
AfterFrameDtor(rec, f, v) ==
    IF Releases(f)
    THEN [rec EXCEPT !.rel = @ + 1, !.free = IF v = "heap" THEN @ + 1 ELSE @]
    ELSE rec

\* if (encoded_callback_) encoded_callback_(std::move(encoded_frame)); without
\* a callback the local frame is destroyed at the end of the block
G_Deliver ==
    /\ sloop.pc = "deliver"
    /\ IF sloop.cb
       THEN /\ sloop' = [sloop EXCEPT !.pc = "in_callback"]
            /\ UNCHANGED <<scur, slog>>
       ELSE Finished(AfterFrameDtor(scur, scur.frame, sloop.variant))

\* the callback returns: its by-value parameter, move-constructed from the
\* local frame, is destroyed, then the moved-from local frame
G_CallbackReturns ==
    /\ sloop.pc = "in_callback"
    /\ Finished(AfterFrameDtor(AfterFrameDtor(scur, MovedInto(scur.frame), sloop.variant),
                               MovedFrom(scur.frame), sloop.variant))

StreamNext ==
    \/ \E v \in {"common", "heap"}, cb \in BOOLEAN : G_Start(v, cb)
    \/ G_Stop
    \/ G_Check
    \/ G_Alloc
    \/ \E r \in {"RK_SUCCESS", "BUF_EMPTY", "ERR"}, packs \in 0..1, ptr \in BOOLEAN :
         G_GetStreamReturns(r, packs, ptr)
    \/ G_Deliver
    \/ G_CallbackReturns

(***************************************************************************)
(* FileSaver in a stream format (H.264 / HEVC): the control thread calls   *)
(* Initialize() / Start() / StartRecording() / StopRecording() / Stop(),   *)
(* the encoder's callback thread calls SaveFrame(); Stop() and SaveFrame() *)
(* are taken one statement at a time; StartRecording(), StopRecording()    *)
(* and WriteToFile() hold file_mutex_ from entry to return, so each is one *)
(* step.                                                                   *)
(***************************************************************************)
\* FileSaver::Config::max_frames of the recording
max_frames == 2

SaverInit ==
    /\ saver = [state |-> "kUninitialized", is_recording |-> FALSE, file_open |-> FALSE,
                frame_count |-> 0]
    /\ vpc = [ctl |-> "idle", cb |-> "idle"]
    /\ vfiles = <<>>
    /\ limitHit = FALSE
    /\ lastCtl = "none"

\* the body of StartRecording() under the lock: f is the saver, openOk the
\* outcome of file_.open()
StartRecordingDone(f, openOk) ==
    IF f.is_recording \/ ~openOk THEN f
    ELSE [f EXCEPT !.is_recording = TRUE, !.file_open = TRUE, !.frame_count = 0]

\* the files after StartRecording(): a new (or truncated) file on a successful open
AfterOpen(f, openOk) ==
    IF ~f.is_recording /\ openOk THEN Append(vfiles, 0) ELSE vfiles

\* FileSaver::Initialize()
K_Initialize(dirOk) ==
    /\ vpc.ctl = "idle"
    /\ saver.state = "kUninitialized"
    /\ saver' = [saver EXCEPT !.state = IF dirOk THEN "kInitialized" ELSE "kError"]
    /\ lastCtl' = "Initialize"
    /\ UNCHANGED <<vpc, vfiles, limitHit>>

\* FileSaver::Start()
K_Start ==
    /\ vpc.ctl = "idle"
    /\ saver' = IF CanStart(saver.state)
                THEN [saver EXCEPT !.frame_count = 0, !.state = "kRunning"]
                ELSE saver
    /\ lastCtl' = "Start"
    /\ UNCHANGED <<vpc, vfiles, limitHit>>

\* FileSaver::StartRecording() called by the application
K_StartRecording(openOk) ==
    /\ vpc.ctl = "idle"
    /\ Len(vfiles) < MaxFiles
    /\ saver' = StartRecordingDone(saver, openOk)
    /\ vfiles' = AfterOpen(saver, openOk)
    /\ limitHit' = FALSE
    /\ lastCtl' = "StartRecording"
    /\ UNCHANGED vpc

\* FileSaver::StopRecording() called by the application
K_StopRecording ==
    /\ vpc.ctl = "idle"
    /\ saver' = StopRecordingDone(saver)
    /\ lastCtl' = "StopRecording"
    /\ UNCHANGED <<vpc, vfiles, limitHit>>

\* Stop(): if (GetState() == kUninitialized) return; if (is_recording_.load())
K_StopCall ==
    /\ vpc.ctl = "idle"
    /\ IF saver.state = "kUninitialized"
       THEN /\ lastCtl' = "StopNoop"
            /\ UNCHANGED vpc
       ELSE /\ vpc' = [vpc EXCEPT !.ctl = IF saver.is_recording THEN "stop_recording" ELSE "set_stopped"]
            /\ UNCHANGED lastCtl
    /\ UNCHANGED <<saver, vfiles, limitHit>>

\* Stop(): (void)StopRecording()
K_StopStopRecording ==
    /\ vpc.ctl = "stop_recording"
    /\ saver' = StopRecordingDone(saver)
    /\ vpc' = [vpc EXCEPT !.ctl = "set_stopped"]
    /\ UNCHANGED <<vfiles, limitHit, lastCtl>>

\* Stop(): SetState(kStopped)
K_SetStopped ==
    /\ vpc.ctl = "set_stopped"
    /\ saver' = [saver EXCEPT !.state = "kStopped"]
    /\ vpc' = [vpc EXCEPT !.ctl = "idle"]
    /\ lastCtl' = "Stop"
    /\ UNCHANGED <<vfiles, limitHit>>

\* SaveFrame(frame): if (GetState() != kRunning) return false; if (!frame.IsValid()) return false
V_SaveFrame(valid) ==
    /\ vpc.cb = "idle"
    /\ vpc' = [vpc EXCEPT !.cb = IF saver.state = "kRunning" /\ valid THEN "test_recording" ELSE "idle"]
    /\ UNCHANGED <<saver, vfiles, limitHit, lastCtl>>

\* SaveFrame: if (!is_recording_.load())
V_TestRecording ==
    /\ vpc.cb = "test_recording"
    /\ vpc' = [vpc EXCEPT !.cb = IF saver.is_recording THEN "write" ELSE "start_recording"]
    /\ UNCHANGED <<saver, vfiles, limitHit, lastCtl>>

\* SaveFrame: if (!StartRecording()) return false
V_StartRecording(openOk) ==
    /\ vpc.cb = "start_recording"
    /\ Len(vfiles) < MaxFiles
    /\ saver' = StartRecordingDone(saver, openOk)
    /\ vfiles' = AfterOpen(saver, openOk)
    /\ vpc' = [vpc EXCEPT !.cb = IF saver.is_recording \/ openOk THEN "write" ELSE "idle"]
    /\ UNCHANGED <<limitHit, lastCtl>>

\* SaveFrame: if (!WriteToFile(data, size)) return false
V_WriteToFile ==
    /\ vpc.cb = "write"
    /\ IF saver.file_open
       THEN /\ vfiles[Len(vfiles)] < MaxWrites
            /\ vfiles' = [vfiles EXCEPT ![Len(vfiles)] = @ + 1]
            /\ vpc' = [vpc EXCEPT !.cb = "count"]
       ELSE /\ vpc' = [vpc EXCEPT !.cb = "idle"]
            /\ UNCHANGED vfiles
    /\ UNCHANGED <<saver, limitHit, lastCtl>>

\* SaveFrame: frame_count_.fetch_add(1)
V_Count ==
    /\ vpc.cb = "count"
    /\ saver' = [saver EXCEPT !.frame_count = @ + 1]
    /\ vpc' = [vpc EXCEPT !.cb = "limit"]
    /\ UNCHANGED <<vfiles, limitHit, lastCtl>>

\* SaveFrame: if (max_frames > 0 && frame_count_.load() >= max_frames) StopRecording(); return true
V_Limit ==
    /\ vpc.cb = "limit"
    /\ IF max_frames > 0 /\ saver.frame_count >= max_frames
       THEN /\ saver' = StopRecordingDone(saver)
            /\ limitHit' = TRUE
       ELSE UNCHANGED <<saver, limitHit>>
    /\ vpc' = [vpc EXCEPT !.cb = "idle"]
    /\ UNCHANGED <<vfiles, lastCtl>>

SaverNext ==
    \/ \E dirOk \in BOOLEAN : K_Initialize(dirOk)
    \/ K_Start
    \/ \E openOk \in BOOLEAN : K_StartRecording(openOk)
    \/ K_StopRecording
    \/ K_StopCall
    \/ K_StopStopRecording
    \/ K_SetStopped
    \/ \E valid \in BOOLEAN : V_SaveFrame(valid)
    \/ V_TestRecording
    \/ \E openOk \in BOOLEAN : V_StartRecording(openOk)
    \/ V_WriteToFile
    \/ V_Count
    \/ V_Limit

(***************************************************************************)
(* Specifications.                                                         *)
(***************************************************************************)
Init == FrameInit /\ SysInit /\ ModInit /\ LoopInit /\ PipeInit /\ WeakInit /\ RtspInit /\ DtorInit /\ StreamInit /\ SaverInit

SpecFrame == Init /\ [][FrameNext /\ UNCHANGED <<sysVars, modVars, loopVars, pipeVars, extVars>>]_vars

SpecSys == Init /\ [][SysNext /\ UNCHANGED <<frameVars, modVars, loopVars, pipeVars, extVars>>]_vars

SpecMod == Init /\ [][ModNext /\ UNCHANGED <<frameVars, loopVars, pipeVars, extVars>>]_vars

SpecLoop == Init /\ [][LoopNext /\ UNCHANGED <<frameVars, extVars>>]_vars

\* an acquisition thread that can take a step takes one (the driver calls
\* return within their timeout and the callbacks return), and join() returns
\* once the thread function has returned
LoopFairness ==
    /\ \A m \in Sources : WF_vars(LoopStep(m) /\ UNCHANGED <<frameVars, extVars>>)
    /\ WF_vars(T_StopJoin /\ UNCHANGED <<frameVars, extVars>>)

SpecLoopFair == SpecLoop /\ LoopFairness

SpecBind == Init /\ [][BindNext /\ UNCHANGED <<frameVars, extVars>>]_vars

SpecPipe == Init /\ [][PipeNext /\ UNCHANGED <<frameVars, extVars>>]_vars

SpecLife == Init /\ [][LifeNext /\ UNCHANGED <<frameVars, extVars>>]_vars

SpecWeak == Init /\ [][WeakNext /\ UNCHANGED <<frameVars, rtspVars, dtorVars, streamVars, saverVars>>]_vars

SpecRtsp == Init /\ [][RtspNext /\ UNCHANGED <<frameVars, weakVars, dtorVars, streamVars, saverVars>>]_vars

SpecDtor == Init /\ [][DtorNext /\ UNCHANGED frameVars]_vars

SpecStream ==
    Init /\ [][StreamNext /\ UNCHANGED <<frameVars, sysVars, modVars, loopVars, pipeVars,
                                          weakVars, rtspVars, dtorVars, saverVars>>]_vars

SpecSaver ==
    Init /\ [][SaverNext /\ UNCHANGED <<frameVars, sysVars, modVars, loopVars, pipeVars,
                                         weakVars, rtspVars, dtorVars, streamVars>>]_vars

SpecDestroy == Init /\ [][DestroyNext /\ UNCHANGED <<frameVars, extVars>>]_vars

(***************************************************************************)
(* Properties of the Frame types.                                          *)
(***************************************************************************)
RECURSIVE Count(_, _)
Count(log, h) ==
    IF log = <<>> THEN 0
    ELSE (IF Head(log) = h THEN 1 ELSE 0) + Count(Tail(log), h)

AllFramesDestroyed == \A s \in Slots : ~frames[s].alive

\* C1: single release.  Over any sequence of move-constructions,
\* move-assignments and destructions the release callback of a validly
\* acquired handle is invoked at most once, and exactly once when every Frame
\* has been destroyed; only acquired handles are ever released; and the
\* destruction of a moved-from Frame invokes no release callback.
C1_SingleRelease ==
    /\ [](\A h \in Handles : Count(releaseLog, h) <= 1)
    /\ [](\A i \in 1..Len(releaseLog) : releaseLog[i] \in acquired)
    /\ [](AllFramesDestroyed => \A h \in acquired : Count(releaseLog, h) = 1)
    /\ [][\A s \in Slots :
            (lastOp' = Op("Destroy", s, 0, lastOp'.n) /\ s \in movedFrom) => releaseLog' = releaseLog]_vars

\* a handle acquired, moved, and its last owner destroyed
C1_Witness ==
    /\ AllFramesDestroyed
    /\ acquired = Handles
    /\ moved = Handles
    /\ \A h \in Handles : Count(releaseLog, h) = 1

ValidOwners(h) == {s \in Slots : frames[s].alive /\ frames[s].is_valid /\ frames[s].handle = h}

IsMoveStep(d, s) ==
    \/ lastOp' = Op("MoveConstruct", d, s, 0)
    \/ (d # s /\ lastOp' = Op("MoveAssign", d, s, lastOp'.n))

\* C2: exclusive ownership.  At most one live Frame with IsValid() holds a
\* given handle; a move makes the destination valid iff the source was valid
\* and leaves the source invalid with its handle and callback cleared.
C2_ExclusiveOwnership ==
    /\ [](\A h \in Handles : Cardinality(ValidOwners(h)) <= 1)
    /\ [][\A d, s \in Slots : IsMoveStep(d, s) =>
            /\ frames'[d].is_valid = frames[s].is_valid
            /\ ~frames'[s].is_valid
            /\ frames'[s].handle = Null
            /\ frames'[s].cb = NoCb]_vars

\* a valid Frame has just been moved into another object
C2_Witness ==
    /\ lastOp.op = "MoveConstruct"
    /\ frames[lastOp.dst].is_valid
    /\ frames[lastOp.src].alive
    /\ ~frames[lastOp.src].is_valid

\* C3: move-assignment.  Assigning B over a distinct valid A invokes A's
\* release callback exactly once, with A's old handle, and A then holds B's
\* handle and callback while B is invalid; self-assignment invokes no release
\* and changes nothing.
C3_MoveAssignReleases ==
    [][\A d, s \in Slots : lastOp' = Op("MoveAssign", d, s, lastOp'.n) =>
         IF d # s
         THEN /\ frames[d].is_valid => releaseLog' = Append(releaseLog, frames[d].handle)
              /\ ~frames[d].is_valid => releaseLog' = releaseLog
              /\ frames'[d].handle = frames[s].handle
              /\ frames'[d].cb = frames[s].cb
              /\ frames'[d].is_valid = frames[s].is_valid
              /\ ~frames'[s].is_valid
         ELSE /\ frames' = frames
              /\ releaseLog' = releaseLog]_vars

\* a valid Frame has just been assigned over another valid Frame
C3_Witness ==
    /\ lastOp.op = "MoveAssign"
    /\ lastOp.dst # lastOp.src
    /\ lastOp.n = 1
    /\ frames[lastOp.dst].is_valid
    /\ releaseLog # <<>>
    /\ releaseLog[Len(releaseLog)] # frames[lastOp.dst].handle

(***************************************************************************)
(* Properties of SystemManager and SystemGuard.                            *)
(***************************************************************************)
Last(log) == log[Len(log)]
InDriver == {t \in Threads : pc[t] \in {"I_in_init", "D_in_exit"}}
ValidGuards == {g \in Guards : guards[g].st = "alive" /\ guards[g].is_valid}

\* C4: reference-counted resource.  When N >= 1 Initialize() calls, all of
\* them complete and successful, are followed by N Deinitialize() calls, in
\* any interleaving of the threads, RK_MPI_SYS_Init has run exactly once,
\* RK_MPI_SYS_Exit exactly once, and the count ends at 0.
C4_RefCountedResource ==
    (/\ AllIdle
     /\ phase = "rel"
     /\ calls.acq >= 1
     /\ calls.acq = calls.rel
     /\ calls.fail = 0)
    => (driverLog = <<"init_ok", "exit">> /\ ref_count = 0 /\ ~hwUp /\ ~sys_initialized)

\* two acquires followed by two releases have completed
C4_Witness ==
    /\ AllIdle
    /\ phase = "rel"
    /\ calls = [acq |-> 2, rel |-> 2, fail |-> 0]
    /\ driverLog = <<"init_ok", "exit">>

InitOnlyOnZeroToOne ==
    \A t \in Threads : pc[t] \in {"I_call_init", "I_in_init"} => (prev_count[t] = 0 /\ ref_count = 1)

ExitOnlyOnOneToZero ==
    \A t \in Threads : pc[t] \in {"D_call_exit", "D_in_exit"} => (prev_count[t] = 1 /\ ref_count = 0)

NoDriverOverlap == Cardinality(InDriver) <= 1

IdleInitializedIffCounted ==
    AllIdle => ((hwUp <=> ref_count > 0) /\ (sys_initialized <=> ref_count > 0))

IsInitEvent(e) == e \in {"init_ok", "init_fail"}
IsEffective(e) == e # "init_fail"

\* odd positions are inits, even positions are teardowns
Alternates(log) ==
    \A i \in 1..Len(log) : IF i % 2 = 1 THEN IsInitEvent(log[i]) ELSE log[i] = "exit"

\* C5 as stated: init only on 0->1, teardown only on 1->0, the init and
\* teardown invocations strictly alternate starting with init and never
\* overlap, and when no call is in progress the subsystem is initialized iff
\* the count is positive.
C5_Original ==
    /\ InitOnlyOnZeroToOne
    /\ ExitOnlyOnOneToZero
    /\ Alternates(driverLog)
    /\ NoDriverOverlap
    /\ IdleInitializedIffCounted

\* C5 (amended): as above, but the alternation is between the successful
\* init invocations and the teardown invocations: an init invocation that
\* failed may be followed by another init invocation with no teardown between.
C5_InitExitAlternate ==
    /\ InitOnlyOnZeroToOne
    /\ ExitOnlyOnOneToZero
    /\ Alternates(SelectSeq(driverLog, IsEffective))
    /\ NoDriverOverlap
    /\ IdleInitializedIffCounted

\* init, teardown and a second init have happened while another thread waits
C5_Witness ==
    /\ SelectSeq(driverLog, IsEffective) = <<"init_ok", "exit", "init_ok">>
    /\ \E t \in Threads : pc[t] \in {"I_lock", "D_lock"}

\* C6: failed-init rollback.  An Initialize() that found the count at 0 and
\* whose RK_MPI_SYS_Init failed returns false with the count back at 0 and
\* the system not marked initialized, and the next Initialize() calls
\* RK_MPI_SYS_Init again.
C6_FailedInitRollback ==
    /\ [](\A t \in Threads :
            (pc[t] = "I_unlock" /\ prev_count[t] = 0 /\ driverLog # <<>> /\ Last(driverLog) = "init_fail")
            => (~ret[t] /\ ref_count = 0 /\ ~sys_initialized /\ ~hwUp))
    /\ [][\A t \in Threads :
            (pc[t] = "I_fetch_add" /\ pc'[t] # "I_fetch_add"
             /\ driverLog # <<>> /\ Last(driverLog) = "init_fail")
            => pc'[t] = "I_call_init"]_vars

\* a failed first init was followed by an acquire that initialized the system
C6_Witness ==
    /\ AllIdle
    /\ calls.fail = 1
    /\ Len(driverLog) >= 2
    /\ driverLog[1] = "init_fail"
    /\ driverLog[2] = "init_ok"
    /\ ref_count = 1

\* C7: over-release is clamped.  A Deinitialize() that finds the count at 0
\* (or below) returns with the count at 0 and does not call RK_MPI_SYS_Exit;
\* every RK_MPI_SYS_Exit directly follows a successful RK_MPI_SYS_Init.
C7_OverReleaseClamped ==
    /\ \A t \in Threads : (pc[t] = "D_unlock" /\ prev_count[t] <= 0) => ref_count = 0
    /\ \A t \in Threads : pc[t] \in {"D_call_exit", "D_in_exit", "D_clear_flag"} => prev_count[t] >= 1
    /\ \A i \in 1..Len(driverLog) : driverLog[i] = "exit" => (i > 1 /\ driverLog[i - 1] = "init_ok")

\* an over-release is returning after the system was torn down once
C7_Witness ==
    /\ \E t \in Threads : pc[t] = "D_unlock" /\ prev_count[t] <= 0
    /\ driverLog = <<"init_ok", "exit">>
    /\ misuse

C9_StartLegality ==
    [][\A m \in Modules :
         (lastCall'.op = "Start" /\ lastCall'.m = m /\ StateOf(m) \notin {"kInitialized", "kStopped"})
         => (/\ ~lastCall'.ret
             /\ spawned' = spawned
             /\ UNCHANGED <<vc, ve, fs, rs, hw>>)]_vars

\* Start() has just been refused on a module in Error while another is Running
C9_Witness ==
    /\ lastCall.op = "Start"
    /\ ~lastCall.ret
    /\ lastCall.from = "kError"
    /\ StateOf(lastCall.m) = "kError"
    /\ \E m \in Modules : StateOf(m) = "kRunning"

\* C10: idempotent initialize.  Initialize() on a module that is Initialized
\* returns true and changes nothing: no module member, no hardware resource,
\* no creation call, and no SystemManager reference.
C10_IdempotentInitialize ==
    [][\A m \in Modules :
         (lastCall'.op = "Initialize" /\ lastCall'.m = m /\ StateOf(m) = "kInitialized")
         => (/\ lastCall'.ret
             /\ StateOf(m)' = "kInitialized"
             /\ UNCHANGED <<vc, ve, fs, rs, hw, created, spawned>>
             /\ UNCHANGED <<ref_count, sys_initialized, hwUp, driverLog>>)]_vars

\* a second Initialize() on the initialized VideoCapture has just returned
C10_Witness ==
    /\ lastCall = Call("Initialize", "vc", TRUE, "kInitialized")
    /\ vc.state = "kInitialized"
    /\ created.vi = 1
    /\ ref_count = 1

\* the state changes the lifecycle permits
LegalTransitions ==
    {<<"kUninitialized", "kInitialized">>, <<"kUninitialized", "kError">>,
     <<"kInitialized", "kRunning">>, <<"kRunning", "kStopped">>, <<"kStopped", "kRunning">>}

\* C11: legal transitions and terminal Error.  For every module class and
\* every sequence of Initialize / Start / Stop calls, each state change is one
\* of Uninitialized->Initialized, Uninitialized->Error, Initialized->Running,
\* Running->Stopped, Stopped->Running; a module in Error never changes state.
C11_LegalTransitions ==
    [][\A m \in Modules :
         StateOf(m)' # StateOf(m) => <<StateOf(m), StateOf(m)'>> \in LegalTransitions]_vars

\* C12: restart without re-initialize.  For every module class, after
\* Initialize -> Start -> Stop a further Start() returns true and moves the
\* module from Stopped to Running.
C12_RestartWithoutReinit ==
    [][\A m \in Modules :
         (/\ lastCall'.op = "Start" /\ lastCall'.m = m
          /\ m \in started /\ StateOf(m) = "kStopped")
         => (lastCall'.ret /\ StateOf(m)' = "kRunning")]_vars

\* C13: Stop() is a no-op outside Running.  Stop() on a module that is
\* Uninitialized, Initialized, Stopped or Error leaves every module member
\* and every driver resource as it was.
C13_StopNoOpOutsideRunning ==
    [][\A m \in Modules :
         (lastCall'.op = "Stop" /\ lastCall'.m = m /\ StateOf(m) # "kRunning")
         => UNCHANGED <<vc, ve, fs, rs, hw>>]_vars

(***************************************************************************)
(* Properties of the acquisition loops.                                    *)
(***************************************************************************)
IsCbIn(e) == e.ev = "cb_in"
IsCbOut(e) == e.ev = "cb_out"
IsRel(e) == e.ev = "rel"
IsAcqWithCb(e) == e.ev = "acq" /\ e.cb
IsAcqWithoutCb(e) == e.ev = "acq" /\ ~e.cb

\* the frame ids of a sequence of events
Ids(es) == [i \in 1..Len(es) |-> es[i].id]

IsPrefix(a, b) == Len(a) <= Len(b) /\ SubSeq(b, 1, Len(a)) = a

\* the acquisition thread of m is between two iterations, or does not run
BetweenIterations(m) == loop[m].pc \in {"none", "check", "get", "in_acquire", "exited"}

\* C14: no callback after stop.  When Stop() returns on a Running
\* VideoCapture / VideoEncoder its acquisition thread has fully exited: the
\* thread is past its last statement when the join returns, a Stopped module
\* with no call in progress has no thread, and callbacks and releases happen
\* only on a live thread.
C14_NoCallbackAfterStop ==
    /\ [][(ctl.pc = "join" /\ ctl'.pc = "idle")
            => (loop[ctl.m].pc = "exited" /\ loop'[ctl.m].pc = "none")]_vars
    /\ [](\A m \in Sources :
            (ModRec(m).state = "kStopped" /\ ctl.m # m) => (loop[m].pc = "none" /\ ~ModRec(m).thread))
    /\ [][\A m \in Sources :
            events'[m] # events[m] => loop[m].pc \in {"in_acquire", "got", "in_callback"}]_vars

\* Stop() has returned on the capture module after a callback had run
C14_Witness ==
    /\ lastCall = Call("Stop", "vc", TRUE, "kRunning")
    /\ vc.state = "kStopped"
    /\ loop["vc"].pc = "none"
    /\ Len(SelectSeq(events["vc"], IsCbOut)) >= 1

\* C15: Stop terminates.  Once Stop() has cleared the running flag of a
\* Running Source/Encoder it returns with the module Stopped, provided the
\* driver calls and the callbacks return; the thread exits on the first test
\* of the flag after it is cleared.
C15_StopTerminates ==
    /\ \A m \in Sources :
         (ctl = [m |-> m, pc |-> "join"]) ~> (ctl.pc = "idle" /\ ModRec(m).state = "kStopped")
    /\ [][\A m \in Sources :
            (loop[m].pc = "check" /\ ~ModRec(m).running /\ loop'[m] # loop[m])
            => loop'[m].pc = "exited"]_vars

\* Stop() has returned on the encoder, whose thread had a frame in flight
C15_Witness ==
    /\ lastCall = Call("Stop", "ve", TRUE, "kRunning")
    /\ ve.state = "kStopped"
    /\ ~ve.thread
    /\ Len(SelectSeq(events["ve"], IsRel)) >= 1

\* C16: stream-time failures are absorbed.  A timeout or an error of the
\* driver call sends the loop back to its flag test and leaves the module as
\* it was; a module whose thread is alive outside Start()/Stop() is Running;
\* the thread ends only after Stop() cleared the flag; and Error is entered
\* only by an Initialize() that returns false.
C16_StreamFailuresAbsorbed ==
    /\ [][\A m \in Sources :
            (loop[m].pc = "in_acquire" /\ loop'[m].pc \notin {"in_acquire", "got"})
            => (loop'[m].pc = "check" /\ ModRec(m)' = ModRec(m))]_vars
    /\ [](\A m \in Sources :
            (loop[m].pc \notin {"none", "exited"} /\ ctl.m # m) => ModRec(m).state = "kRunning")
    /\ [][\A m \in Sources :
            (loop[m].pc # "exited" /\ loop'[m].pc = "exited")
            => (~ModRec(m).running /\ ctl = [m |-> m, pc |-> "join"])]_vars
    /\ [][\A m \in Sources :
            (ModRec(m).state # "kError" /\ ModRec(m)'.state = "kError")
            => lastCall' = Call("Initialize", m, FALSE, "kUninitialized")]_vars

\* the driver call of the Running encoder has just failed and the loop goes on
C16_Witness ==
    /\ loop["ve"].ret = "error"
    /\ loop["ve"].pc = "check"
    /\ ve.state = "kRunning"
    /\ ve.running

\* C17: FIFO delivery.  Within one loop, the frames acquired while a
\* callback is registered are passed to the callback exactly once and in
\* acquisition order, and the callback of a frame has returned before the
\* next frame is acquired.
C17_FifoDelivery ==
    \A m \in Sources :
        LET acq == Ids(SelectSeq(events[m], IsAcqWithCb))
            cbin == Ids(SelectSeq(events[m], IsCbIn))
        IN  /\ IsPrefix(cbin, acq)
            /\ Len(acq) - Len(cbin) <= (IF loop[m].pc = "got" THEN 1 ELSE 0)
            /\ \A p \in 1..Len(events[m]) :
                 IsAcq(events[m][p])
                 => Len(SelectSeq(SubSeq(events[m], 1, p), IsCbIn))
                    = Len(SelectSeq(SubSeq(events[m], 1, p), IsCbOut))

\* two frames have been delivered to the capture callback and a third is acquired
C17_Witness ==
    /\ Len(SelectSeq(events["vc"], IsCbOut)) = 2
    /\ loop["vc"].pc = "got"
    /\ callback["vc"]

\* the frame ids the loop of s acquired while its output callback led to k
Forwardable(s, k) ==
    Ids(SelectSeq(events[s], LAMBDA e : IsAcq(e) /\ e.out = k))

\* C18: software-bind delivery.  After BindSoftware(S, K) and S.Start(),
\* every frame the acquisition loop of S acquires is passed to K's
\* PushFrame(), in acquisition order.
C18_SoftwareBindDelivery ==
    \A k \in Modules :
        BetweenIterations("vc") => pushLog[k] = Forwardable("vc", k)

UnbindPairs(log) == [i \in 1..Len(log) |-> <<log[i].src, log[i].dst>>]
ChnPairs(ps) == [i \in 1..Len(ps) |-> <<ToMppChn(ps[i][1]), ToMppChn(ps[i][2])>>]
BindingPairs(bs) ==
    LET hwb == SelectSeq(bs, IsHardware)
    IN  [i \in 1..Len(hwb) |-> <<hwb[i].src_endpoint, hwb[i].dst_endpoint>>]

\* C20: exactly one unbind per hardware binding.  The unbind calls made so
\* far, followed by the Hardware bindings still recorded, are the bindings
\* BindHardware recorded, each once, in order and with its own endpoint pair,
\* whether or not an unbind call failed; the binding list is empty after
\* UnbindAll() and after the destruction of the Pipeline.
C20_OneUnbindPerBinding ==
    /\ UnbindPairs(sysUnbindLog) \o ChnPairs(BindingPairs(bindings_)) = ChnPairs(recorded)
    /\ (lastPipe.op \in {"UnbindAll", "Destroy"} /\ cur.op = "idle") => bindings_ = <<>>
    /\ ~alive => bindings_ = <<>>

\* two different bindings have been unbound, one of the unbind calls failed,
\* and UnbindAll() has been called again
C20_Witness ==
    /\ lastPipe = PipeResult("UnbindAll", TRUE)
    /\ Len(recorded) = 2
    /\ recorded[1] # recorded[2]
    /\ Len(sysUnbindLog) = 2
    /\ ~sysUnbindLog[1].ok
    /\ sysUnbindLog[2].ok
    /\ bindings_ = <<>>

\* C21: a bind that reports failure has no effect.  A BindHardware() or
\* BindSoftware() call that returns false leaves the binding list and every
\* output callback as they were; one that returns true appends exactly one
\* entry to the binding list.
C21_FailedBindNoEffect ==
    /\ [][(lastPipe'.op \in {"BindHardware", "BindSoftware"} /\ ~lastPipe'.ret)
            => UNCHANGED <<bindings_, output_callback, recorded>>]_vars
    /\ [][(/\ lastPipe'.op \in {"BindHardware", "BindSoftware"}
           /\ lastPipe'.ret
           /\ (lastPipe' # lastPipe \/ bindings_' # bindings_))
            => (/\ Len(bindings_') = Len(bindings_) + 1
                /\ SubSeq(bindings_', 1, Len(bindings_)) = bindings_
                /\ bindings_'[Len(bindings_')].bind_type
                     = (IF lastPipe'.op = "BindHardware" THEN "kHardware" ELSE "kSoftware"))]_vars

\* after a software binding was recorded, a BindHardware() whose driver call
\* failed has returned false and the list still holds the one entry
C21_Witness ==
    /\ lastPipe = PipeResult("BindHardware", FALSE)
    /\ Len(bindings_) = 1
    /\ IsSoftware(bindings_[1])
    /\ output_callback["vc"] = "fs"

\* the step is a call of BindHardware()
IsBindHardwareStep ==
    /\ lastPipe'.op = "BindHardware"
    /\ <<lastBind, lastPipe, recorded>>' # <<lastBind, lastPipe, recorded>>

\* C22: endpoints are reusable after unbind.  The binding list is empty when
\* UnbindAll() has returned, and a BindHardware() that follows the UnbindAll()
\* with the endpoint pair of the last recorded binding returns true and
\* leaves exactly that one binding in the list, the driver calls not failing
\* for reasons of their own.
C22_EndpointsReusable ==
    /\ []((lastPipe.op = "UnbindAll" /\ cur.op = "idle") => bindings_ = <<>>)
    /\ [][(/\ IsBindHardwareStep
           /\ lastPipe = PipeResult("UnbindAll", TRUE)
           /\ recorded # <<>>
           /\ Last(recorded) = <<lastBind'.src, lastBind'.dst>>
           /\ \A i \in 1..Len(sysUnbindLog) : sysUnbindLog[i].ok
           /\ ~lastBind'.fault)
            => (/\ lastPipe'.ret
                /\ bindings_' = <<HardwareBindInfo(lastBind'.src, lastBind'.dst)>>)]_vars

\* the same endpoint pair has been bound, unbound by UnbindAll() and bound again
C22_Witness ==
    /\ lastPipe = PipeResult("BindHardware", TRUE)
    /\ Len(recorded) = 2
    /\ recorded[1] = recorded[2]
    /\ Len(sysUnbindLog) = 1
    /\ sysUnbindLog[1].ok
    /\ bindings_ = <<HardwareBindInfo(recorded[2][1], recorded[2][2])>>

\* C23: stop before unbind on destruction.  When ~Pipeline() makes its
\* unbind calls, Stop() has returned on every registered module and no
\* registered Source/Encoder is Running or has a live acquisition thread; the
\* calls it makes are those of the bindings still recorded, so none after an
\* explicit UnbindAll(), and once the Pipeline is destroyed every recorded
\* binding has had exactly one unbind call.
C23_StopBeforeUnbind ==
    /\ [][(alive /\ ~alive')
            => (/\ cur.op = "Destroy"
                /\ \A m \in modules_ :
                     /\ Visit(m, TRUE) \in visited
                     /\ StateOf(m) # "kRunning"
                     /\ m \in Sources => (~ModRec(m).running /\ ~ModRec(m).thread)
                /\ UnbindPairs(sysUnbindLog') = UnbindPairs(sysUnbindLog) \o ChnPairs(BindingPairs(bindings_))
                /\ bindings_ = <<>> => sysUnbindLog' = sysUnbindLog)]_vars
    /\ [][sysUnbindLog' # sysUnbindLog => (cur.op = "Destroy" => cur.todo = {})]_vars
    /\ [](~alive => UnbindPairs(sysUnbindLog) = ChnPairs(recorded))

\* the Pipeline has been destroyed with both registered modules Running and
\* one hardware binding recorded
C23_Witness ==
    /\ ~alive
    /\ lastPipe = PipeResult("Destroy", TRUE)
    /\ visited = {Visit("vc", TRUE), Visit("ve", TRUE)}
    /\ started = {"vc", "ve"}
    /\ vc.state = "kStopped"
    /\ ve.state = "kStopped"
    /\ Len(sysUnbindLog) = 1
    /\ Len(recorded) = 1

\* C24: UnbindAll() tears down the software bindings.  When UnbindAll() has
\* returned, no module holds a forwarding callback installed by
\* BindSoftware(): every output callback is empty.
C24_UnbindClearsCallback ==
    (lastPipe = PipeResult("UnbindAll", TRUE) /\ cur.op = "idle")
    => \A m \in Modules : output_callback[m] = "none"

(***************************************************************************)
(* Properties of the forwarding closure.                                   *)
(***************************************************************************)
IsPush(e) == e.ev = "push"
IsFrameRel(e) == e.ev = "rel"

\* C25: weak destination.  The closure calls PushFrame() only on a
\* destination that is still owned and whose destructor has not run; it
\* holds the destination for the time of the call; when the destination is
\* already gone as the closure locks it, the frame gets no PushFrame(); and
\* every frame handed to InvokeOutputCallback() is released exactly once, in
\* order, pushed or not.
C25_WeakDestination ==
    /\ [](\A i \in 1..Len(fireLog) : IsPush(fireLog[i]) => fireLog[i].live)
    /\ [](fire.pc \in {"locked", "pushed"}
            => (fire.holds /\ StrongCount(fire.dst) > 0 /\ fire.dst \notin destroyed))
    /\ [](\A d \in destroyed : StrongCount(d) = 0)
    /\ [][(fire.pc = "closure" /\ StrongCount(fire.dst) = 0 /\ fire' # fire)
            => (fire'.pc = "nolock" /\ pushLog' = pushLog)]_vars
    /\ [](\A i \in 1..Len(fireLog), j \in 1..Len(fireLog) :
            (IsFrameRel(fireLog[i]) /\ ~fireLog[i].live /\ IsPush(fireLog[j]))
            => fireLog[i].frame # fireLog[j].frame)
    /\ [](LET rel == SelectSeq(fireLog, IsFrameRel)
          IN  /\ \A i \in 1..Len(rel) : rel[i].frame = i
              /\ fire.pc = "idle" => \A i \in 1..Len(fireLog) : fireLog[i].frame <= Len(rel))

\* the Sink got the first frame, was unbound, let go and destroyed, and the
\* closure then dropped the second frame
C25_Witness ==
    /\ pushLog["fs"] = <<1>>
    /\ "fs" \in destroyed
    /\ Len(fireLog) = 3
    /\ fireLog[3] = FireEvent("rel", 2, "fs", FALSE)
    /\ fire.pc = "idle"

(***************************************************************************)
(* Properties of the RtspServer under concurrent Stop() and push.          *)
(***************************************************************************)
\* C26: no crash on the race between teardown and an in-flight callback.
\* Whatever the interleaving of Stop() with a PushFrame() / PushData() of the
\* callback thread, no call of the push passes the RTSP library a session or
\* server handle that Stop() has already deleted.
C26_NoUseOfDeletedHandle ==
    rtspUsed = {}

(***************************************************************************)
(* Properties of the bulk operations of the Pipeline.                      *)
(***************************************************************************)
\* the object of module m
ObjectOf(m) ==
    CASE m = "vc" -> vc
      [] m = "ve" -> ve
      [] m = "fs" -> fs
      [] m = "rs" -> rs

IsShortCircuitOp(op) == op \in {"InitializeAll", "StartAll"}

\* C27: short-circuit bulk operations.  InitializeAll() / StartAll()
\* returns true exactly when it has called Initialize() / Start() on every
\* registered module and every call returned true; when it returns false the
\* failed call is its last one and the only failed one, and the modules it
\* had not reached are not called: a step of the operation changes no module
\* but the one it calls, and no call follows a failed one.
C27_ShortCircuit ==
    /\ []((IsShortCircuitOp(lastPipe.op) /\ cur.op = "idle")
            => (/\ {v.m : v \in visited} \subseteq modules_
                /\ lastPipe.ret <=> (/\ {v.m : v \in visited} = modules_
                                     /\ \A v \in visited : v.ret)
                /\ ~lastPipe.ret => (/\ Cardinality({v \in visited : ~v.ret}) = 1
                                     /\ Visit(lastCall.m, FALSE) \in visited
                                     /\ ~lastCall.ret)))
    /\ [][(IsShortCircuitOp(cur.op) /\ visited' # visited)
            => (/\ \A v \in visited : v.ret
                /\ visited' = visited \cup {Visit(lastCall'.m, lastCall'.ret)}
                /\ lastCall'.op = (IF cur.op = "InitializeAll" THEN "Initialize" ELSE "Start")
                /\ lastCall'.m \in cur.todo
                /\ \A m \in Modules \ {lastCall'.m} : ObjectOf(m)' = ObjectOf(m)
                /\ lastCall'.ret => (IF cur.todo = {lastCall'.m}
                                     THEN lastPipe' = PipeResult(cur.op, TRUE)
                                     ELSE cur'.op = cur.op)
                /\ ~lastCall'.ret => lastPipe' = PipeResult(cur.op, FALSE))]_vars
    /\ [][IsShortCircuitOp(cur.op) => (visited' # visited \/ UNCHANGED modVars)]_vars

\* StartAll() has returned false after one successful Start() and one failed
\* one, with a third registered module it did not reach
C27_Witness ==
    /\ lastPipe = PipeResult("StartAll", FALSE)
    /\ cur.op = "idle"
    /\ Cardinality(modules_) = 3
    /\ Cardinality(visited) = 2
    /\ \E v \in visited : v.ret
    /\ \E m \in modules_ : m \notin {v.m : v \in visited} /\ StateOf(m) = "kInitialized"

\* C28: StopAll() stops everything.  StopAll() always returns, without a
\* failure outcome, after one Stop() call on every registered module, each of
\* its steps being such a call; when it has returned no registered module is
\* Running and no registered Source/Encoder has its flag set or a live
\* acquisition thread.
C28_StopAllStopsEverything ==
    /\ []((lastPipe.op = "StopAll" /\ cur.op = "idle")
            => (/\ lastPipe.ret
                /\ {v.m : v \in visited} = modules_
                /\ \A m \in modules_ :
                     /\ StateOf(m) # "kRunning"
                     /\ m \in Sources => (~ModRec(m).running /\ ~ModRec(m).thread)))
    /\ [][(cur.op = "StopAll" /\ cur' # cur)
            => (/\ lastCall'.op = "Stop"
                /\ lastCall'.m \in cur.todo
                /\ visited' = visited \cup {Visit(lastCall'.m, TRUE)}
                /\ cur'.op = (IF cur.todo = {lastCall'.m} THEN "idle" ELSE "StopAll"))]_vars

\* StopAll() has returned on four registered modules, of which the capture
\* module was Running and the encoder is in Error
C28_Witness ==
    /\ lastPipe = PipeResult("StopAll", TRUE)
    /\ cur.op = "idle"
    /\ modules_ = Modules
    /\ lastCall = Call("Stop", "vc", TRUE, "kRunning")
    /\ vc.state = "kStopped"
    /\ ve.state = "kError"
    /\ fs.state = "kStopped"

(***************************************************************************)
(* Properties of Initialize() failures and of module destruction.          *)
(***************************************************************************)
\* the hardware resources the Initialize() of module m enables or creates
EnabledBy(m) ==
    CASE m = "vc" -> hw.isp \/ hw.vi_dev \/ hw.vi_chn
      [] m = "ve" -> hw.venc_chn
      [] m = "rs" -> hw.rtsp_demo \/ hw.rtsp_session
      [] OTHER -> FALSE

\* C29: a failed Initialize() leaves nothing dangling.  When the
\* Initialize() of a module has returned false, leaving it in Error, none of
\* the hardware resources of that module (ISP instance, VI device and
\* channel, VENC channel, RTSP server and session) is enabled.
C29_FailedInitLeavesNothing ==
    (lastCall.op = "Initialize" /\ ~lastCall.ret)
    => (StateOf(lastCall.m) = "kError" /\ ~EnabledBy(lastCall.m))

\* the place of a destructor's event in the documented order
DtorRank(e) ==
    CASE e = "stopped" -> 1
      [] e = "vi_chn_off" -> 2
      [] e = "vi_dev_off" -> 3
      [] e = "isp_off" -> 4
      [] e = "venc_off" -> 4
      [] e = "sys_released" -> 5

\* the acquisition thread of m exists
ThreadAlive(m) == ModRec(m).thread \/ loop[m].pc # "none"

\* C30: a Source's destructor stops the module (its loop thread joined), then
\* disables the VI channel and device, then stops the ISP, then releases its
\* system reference, and an Encoder's stops the module then destroys its
\* channel; the system reference the module holds is never released while its
\* channel is enabled or its loop thread is alive.
C30_DestructionOrder ==
    /\ [](\A m \in Sources :
            /\ \A i, j \in 1..Len(dtorLog[m]) :
                   i < j => DtorRank(dtorLog[m][i]) < DtorRank(dtorLog[m][j])
            /\ dtor[m] \notin {"alive", "in_stop"} =>
                   /\ Len(dtorLog[m]) > 0 /\ dtorLog[m][1] = "stopped"
                   /\ ~ThreadAlive(m) /\ ~ModRec(m).running
            /\ dtor[m] = "gone" => ~EnabledBy(m))
    /\ []((EnabledBy("vc") \/ ThreadAlive("vc")) =>
            vc.sys_guard = "valid" /\ ref_count >= 1 /\ hwUp)
    /\ [][(vc.sys_guard = "valid" /\ vc'.sys_guard # "valid") =>
            ~EnabledBy("vc") /\ ~ThreadAlive("vc")]_vars

\* a running Source was destroyed: thread joined, VI, ISP and the system released in turn
C30_Witness ==
    /\ dtor["vc"] = "gone"
    /\ dtorLog["vc"] = <<"stopped", "vi_chn_off", "vi_dev_off", "isp_off", "sys_released">>
    /\ "vc" \in started
    /\ ~hwUp /\ ref_count = 0

(***************************************************************************)
(* Properties of the accessors of an invalid Frame.                        *)
(***************************************************************************)
\* C31: every accessor called on a Frame that is invalid
\* (default-constructed, built from a null handle, or moved-from) returns a
\* null/zero/false result: GetVirAddr() is null, GetPhyAddr(), GetDataSize()
\* and GetPts() are 0, IsKeyFrame() is false, and the metadata getters
\* (width, height, packet count) are 0.
C31_InvalidFrameAccessors ==
    \A s \in Slots :
        (frames[s].alive /\ ~frames[s].is_valid) =>
            /\ GetVirAddr(frames[s]) = Null
            /\ GetPhyAddr(frames[s]) = 0
            /\ GetDataSize(frames[s]) = 0
            /\ GetPts(frames[s]) = 0
            /\ ~IsKeyFrame(frames[s])
            /\ GetWidth(frames[s]) = 0
            /\ GetHeight(frames[s]) = 0
            /\ GetPacketCount(frames[s]) = 0

(***************************************************************************)
(* Properties of the lock-free observers of SystemManager.                 *)
(***************************************************************************)
\* C32: IsInitialized() is truthful under concurrency.  Whenever
\* IsInitialized() returns true to any thread, RK_MPI_SYS_Init has completed
\* successfully and the teardown has not been performed, whatever the other
\* threads are doing inside Initialize() / Deinitialize(); GetRefCount() is
\* never observed negative.
C32_IsInitializedTruthful ==
    /\ IsInitialized => hwUp
    /\ GetRefCount >= 0

\* C33: InitializeAll() success implies healthy modules.  Whenever
\* InitializeAll() has returned true, every registered module is in a state
\* other than Uninitialized and Error, also when it is called again after an
\* earlier call failed on some module.
C33_InitializeAllHealthy ==
    (lastPipe = PipeResult("InitializeAll", TRUE) /\ cur.op = "idle")
    => \A m \in modules_ : StateOf(m) \notin {"kUninitialized", "kError"}

\* C34: a failed VideoCapture::Initialize() holds no system reference.  When
\* Initialize() runs and returns false (the system init, the ISP init or the
\* VI init failed, the module going to Error), the reference count of the
\* SystemManager when the call returns equals its value before the call.
C34_FailedInitHoldsNoReference ==
    [][(vc.state = "kUninitialized" /\ vc'.state = "kError"
        /\ lastCall' = Call("Initialize", "vc", FALSE, "kUninitialized"))
       => ref_count' = ref_count]_vars

\* C35: system teardown never precedes channel teardown across modules.
\* RK_MPI_SYS_Exit is never invoked while a module still owns a created
\* hardware channel: a VENC channel created by VideoEncoder::Initialize() is
\* destroyed before the last system reference is released, for any order of
\* initializing and destroying a VideoCapture and a VideoEncoder.
C35_ExitAfterChannels ==
    [][(Len(driverLog') > Len(driverLog) /\ driverLog'[Len(driverLog')] = "exit")
       => ~(ve.channel_created \/ hw.venc_chn \/ vc.vi_initialized \/ hw.vi_chn)]_vars

(***************************************************************************)
(* Properties of the encoder's stream loop.                                *)
(***************************************************************************)
\* C36: encoder stream acquire/release pairing.  In every iteration of the
\* encoder's stream loop a successful RK_MPI_VENC_GetStream is matched by
\* exactly one RK_MPI_VENC_ReleaseStream (and an unsuccessful one by none),
\* and the packet-metadata buffer of the iteration is freed exactly once, on
\* every path: callback set or unset, and also when the call reports success
\* with zero packets or a null packet pointer.
C36_StreamPairing ==
    \A i \in 1..Len(slog) :
        /\ slog[i].rel = (IF slog[i].got THEN 1 ELSE 0)
        /\ slog[i].free = slog[i].alloc

(***************************************************************************)
(* Properties of the acquisition thread's lifetime.                        *)
(***************************************************************************)
\* the acquisition thread of m is executing its loop
ThreadRuns(m) == ModRec(m).thread /\ loop[m].pc \notin {"none", "exited"}

\* C37: one loop thread per module.  For any sequence of Initialize() /
\* Start() / Stop() calls of the control thread on a Source/Encoder, a
\* thread is created only when the module has none, so at most one
\* acquisition thread of the module exists at any time; and whenever no
\* Start() / Stop() call is in progress, state == Running iff the running
\* flag is set iff exactly one acquisition thread is alive.
C37_OneLoopThread ==
    /\ [](\A m \in Sources :
            ctl.pc = "idle" =>
                /\ (ModRec(m).state = "kRunning") <=> ModRec(m).running
                /\ ModRec(m).running <=> ThreadRuns(m)
                /\ ThreadAlive(m) <=> ThreadRuns(m))
    /\ [][\A m \in Sources :
            spawned'[m] # spawned[m] =>
                /\ spawned'[m] = spawned[m] + 1
                /\ ~ThreadAlive(m)
                /\ ModRec(m)'.thread /\ loop'[m].pc = "check"]_vars

\* the Source was started, stopped and started again, and its second
\* thread is inside the callback
C37_Witness ==
    /\ spawned.vc = 2
    /\ ctl.pc = "idle"
    /\ vc.state = "kRunning" /\ vc.running
    /\ loop["vc"].pc = "in_callback"

(***************************************************************************)
(* Frame conditions of a failed bulk operation.                            *)
(***************************************************************************)
\* C38: no rollback on bulk failure.  When StartAll() (resp.
\* InitializeAll()) reports failure at some module, the modules it started
\* (resp. initialized) earlier in the same call stay Running (resp.
\* Initialized): the failing step changes no module but the one it calls and
\* stops or tears down nothing; the modules not visited keep their previous
\* state; the binding list is unchanged.
C38_NoRollback ==
    /\ [][(IsShortCircuitOp(cur.op) /\ visited' # visited /\ ~lastCall'.ret)
            => (/\ cur' = PipeIdle
                /\ lastPipe' = PipeResult(cur.op, FALSE)
                /\ \A m \in Modules \ {lastCall'.m} : ObjectOf(m)' = ObjectOf(m)
                /\ ~lastCall'.ret
                /\ lastCall'.op = (IF cur.op = "InitializeAll" THEN "Initialize" ELSE "Start")
                /\ bindings_' = bindings_
                /\ \A v \in visited :
                     /\ v.ret
                     /\ v.m # lastCall'.m
                     /\ cur.op = "StartAll" => StateOf(v.m)' = "kRunning"
                     /\ cur.op = "InitializeAll" => StateOf(v.m)' # "kUninitialized")]_vars
    /\ [][IsShortCircuitOp(cur.op)
            => (/\ bindings_' = bindings_
                /\ \A m \in modules_ \ {v.m : v \in visited'} : ObjectOf(m)' = ObjectOf(m)
                /\ \A m \in Modules :
                     (cur.op = "InitializeAll" /\ Visit(m, TRUE) \in visited' \ visited)
                     => StateOf(m)' = (IF StateOf(m) = "kUninitialized"
                                       THEN "kInitialized" ELSE StateOf(m)))]_vars
    /\ []((IsShortCircuitOp(lastPipe.op) /\ ~lastPipe.ret /\ cur.op = "idle")
            => \A v \in visited :
                 v.ret => (/\ lastPipe.op = "StartAll" => StateOf(v.m) = "kRunning"
                           /\ lastPipe.op = "InitializeAll" => StateOf(v.m) # "kUninitialized"))

\* StartAll() has failed at a third module after it started two, which are Running
C38_Witness ==
    /\ lastPipe = PipeResult("StartAll", FALSE)
    /\ cur.op = "idle"
    /\ Cardinality({v \in visited : v.ret /\ StateOf(v.m) = "kRunning"}) = 2
    /\ Cardinality(visited) = 3

(***************************************************************************)
(* Properties of the FileSaver.                                            *)
(***************************************************************************)
\* C39: the frame limit ends the recording.  With max_frames > 0, once the
\* frames written in the current recording reach max_frames the recording
\* is stopped (IsRecording() false, file closed), and until StartRecording()
\* is called explicitly the following SaveFrame() calls write no frame and
\* open or truncate no file.
C39_FrameLimitEndsRecording ==
    /\ [](limitHit => (~saver.is_recording /\ ~saver.file_open))
    /\ [][(limitHit /\ limitHit') => vfiles' = vfiles]_vars

\* C40: FileSaver::Stop() is final under concurrency.  For any interleaving
\* of Stop() on the control thread with SaveFrame() on the callback thread,
\* once both calls have returned the saver is Stopped, IsRecording() is
\* false and the recording file is closed.
C40_StopIsFinal ==
    (lastCtl = "Stop" /\ vpc.ctl = "idle" /\ vpc.cb = "idle")
    => (saver.state = "kStopped" /\ ~saver.is_recording /\ ~saver.file_open)

====
